---- MODULE Spec2Model ----
(***************************************************************************)
(* Verification model of the dog meal planner: the feeding-plan compute    *)
(* endpoint, the simulation endpoint and the calculation engine they use.  *)
(*                                                                         *)
(* Python floats are modelled as exact rationals <<n, d>> with d > 0 and   *)
(* gcd(n, d) = 1, so that equalities of the arithmetic are decided exactly *)
(* and not up to binary rounding.  Optional values use None.               *)
(***************************************************************************)
EXTENDS Integers, Sequences, FiniteSets, TLC

VARIABLES
    dogs,                \* the dogs table: id -> row
    ingredients,         \* the ingredients table: id -> row
    recipes,             \* the recipes table: id -> row
    recipe_ingredients,  \* the recipe_ingredients rows, in insertion order
    plans,               \* the feeding_plans rows, in insertion order
    weight_logs,         \* the weight_logs rows, in insertion order
    feeding_logs,        \* the feeding_logs rows, in insertion order
    clock,               \* datetime.utcnow(), in ticks
    request,             \* the request handled last
    resp,                \* its response: an HTTPException or the response body
    locals               \* the handler's unrounded local variables at its return

vars == <<dogs, ingredients, recipes, recipe_ingredients, plans, weight_logs, feeding_logs,
          clock, request, resp, locals>>

store == <<dogs, ingredients, recipes, recipe_ingredients, plans, weight_logs, feeding_logs>>

(***************************************************************************)
(* Optional values and float arithmetic                                    *)
(***************************************************************************)
None == <<>>

Abs(n) == IF n < 0 THEN -n ELSE n

RECURSIVE GCD(_, _)
GCD(a, b) == IF b = 0 THEN a ELSE GCD(b, a % b)

\* the float n/d in lowest terms
Rat(n, d) ==
    LET s == IF d < 0 THEN -1 ELSE 1
        g == GCD(Abs(n), Abs(d))
    IN  <<(s * n) \div g, (s * d) \div g>>

F(n) == <<n, 1>>

\* sums, products and comparisons cancel common factors before multiplying
RAdd(x, y) ==
    LET g == GCD(x[2], y[2])
    IN  Rat(x[1] * (y[2] \div g) + y[1] * (x[2] \div g), (x[2] \div g) * y[2])

RNeg(x) == <<-x[1], x[2]>>

RSub(x, y) == RAdd(x, RNeg(y))

RMul(x, y) ==
    LET g1 == GCD(Abs(x[1]), y[2])
        g2 == GCD(Abs(y[1]), x[2])
    IN  Rat((x[1] \div g1) * (y[1] \div g2), (x[2] \div g2) * (y[2] \div g1))

\* x / y; Python raises ZeroDivisionError when y = 0, callers guard it
RDiv(x, y) == RMul(x, IF y[1] < 0 THEN <<-y[2], -y[1]>> ELSE <<y[2], y[1]>>)

RLt(x, y) ==
    LET g == GCD(x[2], y[2])
    IN  x[1] * (y[2] \div g) < y[1] * (x[2] \div g)

RLe(x, y) ==
    LET g == GCD(x[2], y[2])
    IN  x[1] * (y[2] \div g) <= y[1] * (x[2] \div g)

RGt(x, y) == RLt(y, x)

RGe(x, y) == RLe(y, x)

RMax(x, y) == IF RLt(x, y) THEN y ELSE x

\* Python truthiness of an Optional[float]: None and 0 are falsy
Truthy(x) == x # None /\ x[1] # 0

\* `x or dflt`
OrElse(x, dflt) == IF Truthy(x) THEN x ELSE dflt

\* round(x, 2): nearest hundredth, ties to the even hundredth
Round2(x) ==
    LET i == x[1] \div x[2]
        f == x[1] - i * x[2]
        q == (f * 100) \div x[2]
        r == f * 100 - q * x[2]
        h == IF 2 * r < x[2] THEN q
             ELSE IF 2 * r > x[2] THEN q + 1
             ELSE IF q % 2 = 0 THEN q ELSE q + 1
    IN  RAdd(F(i), Rat(h, 100))

RECURSIVE RSum(_)
RSum(s) == IF s = <<>> THEN F(0) ELSE RAdd(Head(s), RSum(Tail(s)))

\* [f(s[i]) : i in 1..Len(s)]
MapSeq(s, f(_)) == [i \in 1..Len(s) |-> f(s[i])]

(***************************************************************************)
(* Ingredient names: strings as sequences of characters                    *)
(***************************************************************************)
Upper == <<"A","B","C","D","E","F","G","H","I","J","K","L","M",
           "N","O","P","Q","R","S","T","U","V","W","X","Y","Z">>

Lower == <<"a","b","c","d","e","f","g","h","i","j","k","l","m",
           "n","o","p","q","r","s","t","u","v","w","x","y","z">>

LowerChar(c) ==
    IF \E i \in 1..26 : Upper[i] = c
    THEN Lower[CHOOSE i \in 1..26 : Upper[i] = c]
    ELSE c

\* str.lower()
lower(s) == [i \in 1..Len(s) |-> LowerChar(s[i])]

\* `pat in s`
Contains(s, pat) ==
    \E i \in 1..(Len(s) - Len(pat) + 1) : SubSeq(s, i, i + Len(pat) - 1) = pat

(***************************************************************************)
(* app/core/calculations.py                                                *)
(***************************************************************************)
ACTIVITY_FACTORS ==
    [neutered_adult |-> Rat(16, 10), intact_adult |-> Rat(18, 10),
     weight_loss |-> Rat(11, 10), weight_gain |-> Rat(18, 10),
     puppy_young |-> F(3), puppy_older |-> F(2)]

Channels == {"kcal", "protein_g", "fat_g", "carbs_g", "calcium_mg",
             "phosphorus_mg", "iron_mg", "zinc_mg", "vitamin_a_mcg",
             "vitamin_d_mcg", "vitamin_e_mg"}

\* NutrientTotals(): every channel 0
NutrientTotals == [c \in Channels |-> F(0)]

\* n ** 0.25 for the weights of the model, all perfect fourth powers
Root4(n) == CHOOSE r \in 0..n : r * r * r * r = n

\* 70 * weight_kg ** 0.75 (weight_kg > 0 is enforced by the request schema)
calculate_rer(weight_kg) ==
    LET a == Root4(weight_kg[1])
        b == Root4(weight_kg[2])
    IN  RMul(F(70), Rat(a * a * a, b * b * b))

\* get_activity_factor consulting the neuter status of an adult before its weight goal
get_activity_factor_neuter_first(neutered, age_years, target_weight_kg, current_weight_kg) ==
    IF RLt(age_years, F(1))
    THEN IF RLt(age_years, Rat(4, 12))
         THEN ACTIVITY_FACTORS.puppy_young
         ELSE ACTIVITY_FACTORS.puppy_older
    ELSE IF neutered THEN ACTIVITY_FACTORS.neutered_adult
    ELSE IF target_weight_kg # None /\ current_weight_kg # None
            /\ RLt(target_weight_kg, current_weight_kg)
         THEN ACTIVITY_FACTORS.weight_loss
    ELSE IF target_weight_kg # None /\ current_weight_kg # None
            /\ RGt(target_weight_kg, current_weight_kg)
         THEN ACTIVITY_FACTORS.weight_gain
    ELSE ACTIVITY_FACTORS.intact_adult

get_activity_factor(neutered, age_years, target_weight_kg, current_weight_kg) ==
    IF RLt(age_years, F(1))
    THEN IF RLt(age_years, Rat(4, 12))
         THEN ACTIVITY_FACTORS.puppy_young
         ELSE ACTIVITY_FACTORS.puppy_older
    ELSE IF target_weight_kg # None /\ current_weight_kg # None
            /\ RLt(target_weight_kg, current_weight_kg)
         THEN ACTIVITY_FACTORS.weight_loss
    ELSE IF target_weight_kg # None /\ current_weight_kg # None
            /\ RGt(target_weight_kg, current_weight_kg)
         THEN ACTIVITY_FACTORS.weight_gain
    ELSE IF neutered THEN ACTIVITY_FACTORS.neutered_adult
    ELSE ACTIVITY_FACTORS.intact_adult

calculate_mer(weight_kg, factor) == RMul(calculate_rer(weight_kg), factor)

\* calculate_homemade_kcal with the difference returned without the clamp at 0
calculate_homemade_kcal_unclamped(target_kcal, kibble_kcal, treats_kcal) ==
    RSub(RSub(target_kcal, kibble_kcal), treats_kcal)

calculate_homemade_kcal(target_kcal, kibble_kcal, treats_kcal) ==
    LET remaining == RSub(RSub(target_kcal, kibble_kcal), treats_kcal)
    IN  RMax(F(0), remaining)

grams_to_kcal(grams, kcal_per_100g) == RMul(RDiv(grams, F(100)), kcal_per_100g)

calculate_nutrient_amount(grams, nutrient_per_100g) ==
    RDiv(RMul(grams, nutrient_per_100g), F(100))

\* aggregate_nutrients with every entry overwriting the totals of the entries before it
aggregate_nutrients_overwriting(ings) ==
    IF ings = <<>> THEN NutrientTotals
    ELSE [c \in Channels |->
            calculate_nutrient_amount(ings[Len(ings)].grams, ings[Len(ings)].per100[c])]

\* ingredients: sequence of [grams, per100]; the totals accumulate in order
RECURSIVE aggregate_nutrients(_)
aggregate_nutrients(ings) ==
    IF ings = <<>> THEN NutrientTotals
    ELSE LET n == Len(ings)
             acc == aggregate_nutrients(SubSeq(ings, 1, n - 1))
         IN  [c \in Channels |->
                RAdd(acc[c], calculate_nutrient_amount(ings[n].grams, ings[n].per100[c]))]

nutrient_per_1000kcal(nutrient_amount, total_kcal) ==
    IF RLe(total_kcal, F(0)) THEN F(0)
    ELSE RMul(RDiv(nutrient_amount, total_kcal), F(1000))

\* check_aafco_compliance comparing with the maximum before the minimum
check_aafco_compliance_excess_first(nutrient, amount_per_1000kcal, min_per_1000kcal, max_per_1000kcal) ==
    LET status ==
            IF max_per_1000kcal # None /\ RGt(amount_per_1000kcal, max_per_1000kcal)
            THEN "excess"
            ELSE IF RLt(amount_per_1000kcal, min_per_1000kcal) THEN "deficient"
            ELSE "adequate"
    IN  [nutrient |-> nutrient,
         amount_per_1000kcal |-> Round2(amount_per_1000kcal),
         min_required |-> min_per_1000kcal,
         max_allowed |-> max_per_1000kcal,
         status |-> status,
         warning |-> IF status = "deficient" THEN <<"below minimum", nutrient>>
                     ELSE IF status = "excess" THEN <<"above maximum", nutrient>>
                     ELSE None]

check_aafco_compliance(nutrient, amount_per_1000kcal, min_per_1000kcal, max_per_1000kcal) ==
    LET status ==
            IF RLt(amount_per_1000kcal, min_per_1000kcal) THEN "deficient"
            ELSE IF max_per_1000kcal # None /\ RGt(amount_per_1000kcal, max_per_1000kcal)
                 THEN "excess"
            ELSE "adequate"
    IN  [nutrient |-> nutrient,
         amount_per_1000kcal |-> Round2(amount_per_1000kcal),
         min_required |-> min_per_1000kcal,
         max_allowed |-> max_per_1000kcal,
         status |-> status,
         warning |-> IF status = "deficient" THEN <<"below minimum", nutrient>>
                     ELSE IF status = "excess" THEN <<"above maximum", nutrient>>
                     ELSE None]

(***************************************************************************)
(* The store (app/models): rows as records, tables keyed by id             *)
(***************************************************************************)
FOOD == "food"

OIL == "oil"

SUPPLEMENT == "supplement"

TREAT == "treat"

\* a NULL in the ingredient_type column
NullType == "null"

\* per-100g nutrient vector of an ingredient row
Per100(kcal, protein, fat, carbs, ca, p, fe, zn, va, vd, ve) ==
    [c \in Channels |->
        CASE c = "kcal" -> kcal          [] c = "protein_g" -> protein
          [] c = "fat_g" -> fat          [] c = "carbs_g" -> carbs
          [] c = "calcium_mg" -> ca      [] c = "phosphorus_mg" -> p
          [] c = "iron_mg" -> fe         [] c = "zinc_mg" -> zn
          [] c = "vitamin_a_mcg" -> va   [] c = "vitamin_d_mcg" -> vd
          [] c = "vitamin_e_mg" -> ve]

Ingredient(id, name, type, per100, kcal_per_ml, serving_size_ml, kcal_per_unit, units_per_day) ==
    [id |-> id, name |-> name, ingredient_type |-> type, per100 |-> per100,
     kcal_per_ml |-> kcal_per_ml, serving_size_ml |-> serving_size_ml,
     kcal_per_unit |-> kcal_per_unit, units_per_day |-> units_per_day]

Dog(id, age_years, neutered, weight_kg, target_weight_kg, target_daily_kcal) ==
    [id |-> id, age_years |-> age_years, neutered |-> neutered,
     weight_kg |-> weight_kg, target_weight_kg |-> target_weight_kg,
     target_daily_kcal |-> target_daily_kcal]

\* user_id is None for a recipe created without a token
Recipe(id, meals_per_day) == [id |-> id, meals_per_day |-> meals_per_day, user_id |-> None]

RecipeIngredient(recipe_id, ingredient_id, percentage) ==
    [recipe_id |-> recipe_id, ingredient_id |-> ingredient_id, percentage |-> percentage]

FeedingPlan(id, dog_id, recipe_id, kibble_kcal, treats_kcal, homemade_kcal, target_kcal) ==
    [id |-> id, dog_id |-> dog_id, recipe_id |-> recipe_id,
     kibble_kcal |-> kibble_kcal, treats_kcal |-> treats_kcal,
     homemade_kcal |-> homemade_kcal, target_kcal |-> target_kcal]

\* the reference rows seeded at start-up, read-only afterwards
aafco_requirements ==
    << [nutrient |-> "protein",    min_per_1000kcal |-> F(45000),   max_per_1000kcal |-> None],
       [nutrient |-> "fat",        min_per_1000kcal |-> F(13750),   max_per_1000kcal |-> None],
       [nutrient |-> "calcium",    min_per_1000kcal |-> F(1250),    max_per_1000kcal |-> F(6250)],
       [nutrient |-> "phosphorus", min_per_1000kcal |-> F(1000),    max_per_1000kcal |-> F(4000)],
       [nutrient |-> "iron",       min_per_1000kcal |-> F(10),      max_per_1000kcal |-> None],
       [nutrient |-> "zinc",       min_per_1000kcal |-> F(20),      max_per_1000kcal |-> None],
       [nutrient |-> "vitamin_a",  min_per_1000kcal |-> F(1250),    max_per_1000kcal |-> F(62500)],
       [nutrient |-> "vitamin_d",  min_per_1000kcal |-> Rat(25, 8), max_per_1000kcal |-> Rat(75, 4)],
       [nutrient |-> "vitamin_e",  min_per_1000kcal |-> Rat(25, 2), max_per_1000kcal |-> None] >>

(***************************************************************************)
(* The records the model starts from: created through POST /dog,           *)
(* POST /ingredient, POST /recipe and POST /recipe/{id}/ingredient         *)
(***************************************************************************)
SeedIngredients ==
    << Ingredient(1, <<"C","h","i","c","k","e","n">>, FOOD,
          Per100(F(165), F(31), Rat(36, 10), F(0), F(15), F(228), F(1), F(1), F(6), F(0), Rat(3, 10)),
          None, None, None, None),
       Ingredient(2, <<"R","i","c","e">>, FOOD,
          Per100(F(130), Rat(27, 10), Rat(3, 10), F(28), F(10), F(43), Rat(2, 10), Rat(5, 10), F(0), F(0), F(0)),
          None, None, None, None),
       Ingredient(3, <<"B","e","e","f"," ","L","I","V","E","R">>, FOOD,
          Per100(F(135), F(20), Rat(36, 10), F(4), F(5), F(387), F(5), F(4), F(4968), F(1), Rat(4, 10)),
          None, None, None, None),
       Ingredient(4, <<"C","o","c","o","n","u","t"," ","O","i","l">>, OIL,
          Per100(F(862), F(0), F(100), F(0), F(0), F(0), F(0), F(0), F(0), F(0), F(0)),
          Rat(86, 10), F(5), None, None),
       Ingredient(5, <<"F","i","s","h"," ","O","i","l">>, OIL,
          Per100(F(900), F(0), F(100), F(0), F(0), F(0), F(0), F(0), F(0), F(0), F(0)),
          None, F(5), None, None),
       Ingredient(6, <<"C","h","e","w">>, SUPPLEMENT,
          Per100(F(0), F(0), F(0), F(0), F(0), F(0), F(0), F(0), F(0), F(0), F(0)),
          None, None, F(10), F(2)),
       Ingredient(7, <<"B","r","o","t","h">>, FOOD,
          Per100(F(0), F(0), F(0), F(0), F(0), F(0), F(0), F(0), F(0), F(0), F(0)),
          None, None, None, None),
       Ingredient(8, <<"T","u","r","m","e","r","i","c">>, FOOD,
          Per100(F(312), F(10), F(3), F(67), F(168), F(299), F(55), F(4), F(0), F(0), F(4)),
          None, None, None, None),
       Ingredient(9, <<"B","i","s","c","u","i","t">>, TREAT,
          Per100(F(350), F(10), F(5), F(60), F(0), F(0), F(0), F(0), F(0), F(0), F(0)),
          None, None, F(30), F(1)) >>

SeedDogs ==
    << Dog(1, F(3), TRUE, F(16), None, None),
       Dog(2, F(3), FALSE, F(1), F(2), Rat(801, 8)) >>

SeedRecipes ==
    << Recipe(1, 2), Recipe(2, 2), Recipe(3, 2), Recipe(4, 2),
       Recipe(5, 1), Recipe(6, 1), Recipe(7, 2), Recipe(9, 1) >>

SeedRecipeIngredients ==
    << RecipeIngredient(1, 1, F(60)), RecipeIngredient(1, 2, F(30)),
       RecipeIngredient(1, 3, F(8)),  RecipeIngredient(1, 8, F(2)),
       RecipeIngredient(3, 1, F(60)), RecipeIngredient(3, 2, F(30)),
       RecipeIngredient(4, 1, F(45)), RecipeIngredient(4, 3, F(15)),
       RecipeIngredient(4, 4, F(30)), RecipeIngredient(4, 6, F(10)),
       RecipeIngredient(5, 1, F(60)), RecipeIngredient(5, 2, F(40)),
       RecipeIngredient(5, 5, F(5)),
       RecipeIngredient(6, 1, F(59)), RecipeIngredient(6, 2, F(40)),
       RecipeIngredient(6, 5, Rat(1, 2)), RecipeIngredient(6, 9, Rat(1, 2)),
       RecipeIngredient(7, 7, F(100)),
       RecipeIngredient(9, 1, F(55)), RecipeIngredient(9, 2, F(39)),
       RecipeIngredient(9, 3, F(5)),  RecipeIngredient(9, 4, F(1)) >>

\* table rows keyed by id
WeightLog(id, dog_id, weight_kg, logged_at, notes) ==
    [id |-> id, dog_id |-> dog_id, weight_kg |-> weight_kg, logged_at |-> logged_at,
     notes |-> notes]

FeedingLog(id, dog_id, recipe_id, kcal_fed, logged_at) ==
    [id |-> id, dog_id |-> dog_id, recipe_id |-> recipe_id, kcal_fed |-> kcal_fed,
     logged_at |-> logged_at]

\* create_dog writes the first weight log of every dog
SeedWeightLogs ==
    << WeightLog(1, 1, F(16), 0, "Initial weight"),
       WeightLog(2, 2, F(1), 0, "Initial weight") >>

Table(rows) == [i \in {rows[k].id : k \in 1..Len(rows)} |->
                    rows[CHOOSE k \in 1..Len(rows) : rows[k].id = i]]

(***************************************************************************)
(* POST /plan/compute  (app/api/plans.py, compute_feeding_plan)            *)
(***************************************************************************)
\* recipe.ingredients: the RecipeIngredient rows of a recipe, in row order
RecipeEntries(rows, recipe_id) == SelectSeq(rows, LAMBDA ri : ri.recipe_id = recipe_id)

\* the ing_data dict built for one recipe entry
IngData(ings, ri) ==
    LET ing == ings[ri.ingredient_id]
    IN  [ingredient_id |-> ing.id,
         ingredient_name |-> ing.name,
         percentage |-> ri.percentage,
         ingredient_type |-> IF ing.ingredient_type # NullType THEN ing.ingredient_type ELSE FOOD,
         kcal_per_100g |-> ing.per100["kcal"],
         per100 |-> ing.per100,
         kcal_per_ml |-> ing.kcal_per_ml,
         serving_size_ml |-> ing.serving_size_ml,
         kcal_per_unit |-> ing.kcal_per_unit,
         units_per_day |-> ing.units_per_day]

\* the entries of one ingredient type, in recipe order
OfType(data, type) == SelectSeq(data, LAMBDA d : d.ingredient_type = type)

\* the sum validated against [99, 101]
TotalPercentage(entries) == RSum(MapSeq(entries, LAMBDA ri : ri.percentage))

PercentageRejected(total_percentage) ==
    RLt(total_percentage, F(99)) \/ RGt(total_percentage, F(101))

\* NormalizeFood leaving the stored percentages as they are
NormalizeFood_skipped(food_ingredients) == food_ingredients

\* FOOD percentages are rescaled to sum to 100 when their sum is outside [99, 101]
NormalizeFood(food_ingredients) ==
    LET food_total_percentage == RSum(MapSeq(food_ingredients, LAMBDA d : d.percentage))
    IN  IF food_ingredients # <<>>
           /\ (RLt(food_total_percentage, F(99)) \/ RGt(food_total_percentage, F(101)))
        THEN MapSeq(food_ingredients, LAMBDA d :
                [d EXCEPT !.percentage =
                    RMul(RDiv(d.percentage, food_total_percentage), F(100))])
        ELSE food_ingredients

\* kcal of one oil as deducted from the homemade budget
OilDeduction(oil) ==
    IF Truthy(oil.kcal_per_ml) /\ Truthy(oil.serving_size_ml)
    THEN RMul(oil.kcal_per_ml, oil.serving_size_ml)
    ELSE IF Truthy(oil.kcal_per_100g) /\ Truthy(oil.serving_size_ml)
    THEN RMul(RDiv(RMul(oil.serving_size_ml, Rat(92, 100)), F(100)), oil.kcal_per_100g)
    ELSE F(0)

OilsKcalPerDay(oil_ingredients) == RSum(MapSeq(oil_ingredients, OilDeduction))

\* kcal of one supplement as deducted from the homemade budget
SupplementDeduction(supp) ==
    IF Truthy(supp.kcal_per_unit) /\ Truthy(supp.units_per_day)
    THEN RMul(supp.kcal_per_unit, supp.units_per_day)
    ELSE F(0)

SupplementsKcalPerDay(supplement_ingredients) ==
    RSum(MapSeq(supplement_ingredients, SupplementDeduction))

\* the plain mean of the FOOD entries' kcal per 100 g, percentages ignored
WeightedAvgKcalPer100g_plain_mean(food_ingredients) ==
    IF food_ingredients # <<>>
    THEN RDiv(RSum(MapSeq(food_ingredients, LAMBDA d : d.kcal_per_100g)),
              F(Len(food_ingredients)))
    ELSE F(0)

WeightedAvgKcalPer100g(food_ingredients) ==
    IF food_ingredients # <<>>
    THEN RSum(MapSeq(food_ingredients, LAMBDA d :
                RMul(RDiv(d.percentage, F(100)), d.kcal_per_100g)))
    ELSE F(0)

\* TotalGramsPerDay without the guard on the food budget
TotalGramsPerDay_unclamped(weighted_avg_kcal_per_100g, actual_batch_kcal) ==
    IF RGt(weighted_avg_kcal_per_100g, F(0))
    THEN RMul(RDiv(actual_batch_kcal, weighted_avg_kcal_per_100g), F(100))
    ELSE F(0)

TotalGramsPerDay(weighted_avg_kcal_per_100g, actual_batch_kcal) ==
    IF RGt(weighted_avg_kcal_per_100g, F(0)) /\ RGt(actual_batch_kcal, F(0))
    THEN RMul(RDiv(actual_batch_kcal, weighted_avg_kcal_per_100g), F(100))
    ELSE F(0)

\* FoodFigures with the batch sized from one meal instead of one day
FoodFigures_batch_of_meals(d, total_grams_per_day, meals_per_day, num_days) ==
    LET grams_per_day == RMul(total_grams_per_day, RDiv(d.percentage, F(100)))
    IN  [grams_per_day |-> grams_per_day,
         grams_per_meal |-> RDiv(grams_per_day, F(meals_per_day)),
         kcal_per_day |-> grams_to_kcal(grams_per_day, d.kcal_per_100g),
         total_grams_batch |-> RMul(RDiv(grams_per_day, F(meals_per_day)), F(num_days))]

\* unrounded figures of one FOOD entry
FoodFigures(d, total_grams_per_day, meals_per_day, num_days) ==
    LET grams_per_day == RMul(total_grams_per_day, RDiv(d.percentage, F(100)))
    IN  [grams_per_day |-> grams_per_day,
         grams_per_meal |-> RDiv(grams_per_day, F(meals_per_day)),
         kcal_per_day |-> grams_to_kcal(grams_per_day, d.kcal_per_100g),
         total_grams_batch |-> RMul(grams_per_day, F(num_days))]

FoodPortion(d, total_grams_per_day, meals_per_day, num_days) ==
    LET f == FoodFigures(d, total_grams_per_day, meals_per_day, num_days)
    IN  [ingredient_id |-> d.ingredient_id,
         ingredient_type |-> FOOD,
         grams_per_day |-> Round2(f.grams_per_day),
         grams_per_meal |-> Round2(f.grams_per_meal),
         kcal_per_day |-> Round2(f.kcal_per_day),
         total_grams_batch |-> Round2(f.total_grams_batch)]

\* the two FOOD checks on the name as stored, without .lower()
FoodWarnings_case_sensitive(d, total_grams_per_day, meals_per_day, num_days) ==
    LET f == FoodFigures(d, total_grams_per_day, meals_per_day, num_days)
    IN  (IF Contains(d.ingredient_name, <<"t","u","r","m","e","r","i","c">>)
            /\ RGt(f.grams_per_day, F(2))
         THEN << <<"turmeric", d.ingredient_id>> >> ELSE <<>>)
        \o
        (IF Contains(d.ingredient_name, <<"l","i","v","e","r">>)
            /\ RGt(d.percentage, F(5))
         THEN << <<"liver", d.ingredient_id>> >> ELSE <<>>)

FoodWarnings(d, total_grams_per_day, meals_per_day, num_days) ==
    LET f == FoodFigures(d, total_grams_per_day, meals_per_day, num_days)
        ing_name_lower == lower(d.ingredient_name)
    IN  (IF Contains(ing_name_lower, <<"t","u","r","m","e","r","i","c">>)
            /\ RGt(f.grams_per_day, F(2))
         THEN << <<"turmeric", d.ingredient_id>> >> ELSE <<>>)
        \o
        (IF Contains(ing_name_lower, <<"l","i","v","e","r">>)
            /\ RGt(d.percentage, F(5))
         THEN << <<"liver", d.ingredient_id>> >> ELSE <<>>)

\* unrounded figures of one OIL entry
OilFigures(d, meals_per_day) ==
    LET serving_ml == OrElse(d.serving_size_ml, F(5))
        ml_per_day == RMul(serving_ml, F(meals_per_day))
    IN  [ml_per_day |-> ml_per_day,
         ml_per_meal |-> serving_ml,
         tsp_per_meal |-> RDiv(serving_ml, F(5)),
         kcal_per_day |->
            IF Truthy(d.kcal_per_ml) THEN RMul(d.kcal_per_ml, ml_per_day)
            ELSE RMul(RDiv(RMul(ml_per_day, Rat(92, 100)), F(100)), d.kcal_per_100g)]

OilPortion(d, meals_per_day) ==
    LET f == OilFigures(d, meals_per_day)
    IN  [ingredient_id |-> d.ingredient_id,
         ingredient_type |-> OIL,
         kcal_per_day |-> Round2(f.kcal_per_day),
         ml_per_meal |-> Round2(f.ml_per_meal),
         ml_per_day |-> Round2(f.ml_per_day),
         tsp_per_meal |-> Round2(f.tsp_per_meal)]

OilWarnings(d, meals_per_day, weight_kg) ==
    LET f == OilFigures(d, meals_per_day)
        dog_weight_lbs == RMul(weight_kg, Rat(2205, 1000))
        max_tsp == RDiv(dog_weight_lbs, F(30))
    IN  IF Contains(lower(d.ingredient_name), <<"c","o","c","o","n","u","t">>)
           /\ RGt(RMul(f.tsp_per_meal, F(meals_per_day)), max_tsp)
        THEN << <<"coconut", d.ingredient_id>> >> ELSE <<>>

SupplementPortion(d) ==
    LET units == OrElse(d.units_per_day, F(1))
        kcal_from_supp == RMul(OrElse(d.kcal_per_unit, F(0)), units)
    IN  [ingredient_id |-> d.ingredient_id,
         ingredient_type |-> SUPPLEMENT,
         units_per_day |-> units,
         kcal_from_supplement |-> Round2(kcal_from_supp),
         kcal_per_day |-> Round2(kcal_from_supp)]

TreatPortion(d) ==
    LET units == OrElse(d.units_per_day, F(0))
        kcal_from_treat == RMul(OrElse(d.kcal_per_unit, F(0)), units)
    IN  [ingredient_id |-> d.ingredient_id,
         ingredient_type |-> TREAT,
         units_per_day |-> units,
         treat_kcal_budget |-> Round2(kcal_from_treat),
         kcal_per_day |-> Round2(kcal_from_treat)]

\* concatenation of a sequence of sequences
RECURSIVE Flatten(_)
Flatten(ss) == IF ss = <<>> THEN <<>> ELSE Head(ss) \o Flatten(Tail(ss))

\* the amount compared with a reference row (g converted to mg for protein and fat)
NutrientMapping(totals, nutrient) ==
    CASE nutrient = "protein"    -> RMul(totals["protein_g"], F(1000))
      [] nutrient = "fat"        -> RMul(totals["fat_g"], F(1000))
      [] nutrient = "calcium"    -> totals["calcium_mg"]
      [] nutrient = "phosphorus" -> totals["phosphorus_mg"]
      [] nutrient = "iron"       -> totals["iron_mg"]
      [] nutrient = "zinc"       -> totals["zinc_mg"]
      [] nutrient = "vitamin_a"  -> totals["vitamin_a_mcg"]
      [] nutrient = "vitamin_d"  -> totals["vitamin_d_mcg"]
      [] nutrient = "vitamin_e"  -> totals["vitamin_e_mg"]
      [] OTHER -> F(0)

AafcoChecks(totals) ==
    IF RGt(totals["kcal"], F(0))
    THEN MapSeq(aafco_requirements, LAMBDA req :
            check_aafco_compliance(req.nutrient,
                nutrient_per_1000kcal(NutrientMapping(totals, req.nutrient), totals["kcal"]),
                req.min_per_1000kcal, req.max_per_1000kcal))
    ELSE <<>>

\* target_kcal of the handler: the dog's own target when truthy, else the MER
TargetKcal(dog) ==
    LET factor == get_activity_factor(dog.neutered, dog.age_years,
                                      dog.target_weight_kg, dog.weight_kg)
        calculated_mer == calculate_mer(dog.weight_kg, factor)
    IN  IF Truthy(dog.target_daily_kcal) THEN dog.target_daily_kcal ELSE calculated_mer

\* TotalKcalAccounted leaving the supplements out
TotalKcalAccounted_without_supplements(actual_batch_kcal, kibble_kcal, oils_kcal_per_day, supplements_kcal_per_day, treats_kcal_per_day) ==
    RAdd(RAdd(RAdd(actual_batch_kcal, kibble_kcal), oils_kcal_per_day), treats_kcal_per_day)

TotalKcalAccounted(actual_batch_kcal, kibble_kcal, oils_kcal_per_day, supplements_kcal_per_day, treats_kcal_per_day) ==
    RAdd(RAdd(RAdd(RAdd(actual_batch_kcal, kibble_kcal), oils_kcal_per_day),
              supplements_kcal_per_day), treats_kcal_per_day)

\* HTTPException(status_code, detail)
HTTPException(status_code, detail) == [status_code |-> status_code, detail |-> detail]

\* primary key given to a new row
NextId(rows) ==
    IF rows = <<>> THEN 1
    ELSE 1 + (CHOOSE m \in {rows[k].id : k \in 1..Len(rows)} :
                \A k \in 1..Len(rows) : rows[k].id <= m)

\* the local variables of the handler when it returns a plan
ComputeLocals(dog, recipe, req) ==
    LET data == MapSeq(RecipeEntries(recipe_ingredients, recipe.id),
                       LAMBDA ri : IngData(ingredients, ri))
        target_kcal == TargetKcal(dog)
        homemade_kcal == calculate_homemade_kcal(target_kcal, req.kibble_kcal, req.treats_kcal)
        food_ingredients == NormalizeFood(OfType(data, FOOD))
        oil_ingredients == OfType(data, OIL)
        supplement_ingredients == OfType(data, SUPPLEMENT)
        treat_ingredients == OfType(data, TREAT)
        oils_kcal_per_day == OilsKcalPerDay(oil_ingredients)
        supplements_kcal_per_day == SupplementsKcalPerDay(supplement_ingredients)
        weighted_avg_kcal_per_100g == WeightedAvgKcalPer100g(food_ingredients)
        actual_batch_kcal == RSub(RSub(homemade_kcal, oils_kcal_per_day), supplements_kcal_per_day)
        total_grams_per_day == TotalGramsPerDay(weighted_avg_kcal_per_100g, actual_batch_kcal)
        total_meals == recipe.meals_per_day * req.num_days
        total_batch_grams == RMul(total_grams_per_day, F(req.num_days))
    IN  [target_kcal |-> target_kcal,
         homemade_kcal |-> homemade_kcal,
         stored_food |-> OfType(data, FOOD),
         food_ingredients |-> food_ingredients,
         oil_ingredients |-> oil_ingredients,
         supplement_ingredients |-> supplement_ingredients,
         treat_ingredients |-> treat_ingredients,
         oils_kcal_per_day |-> oils_kcal_per_day,
         supplements_kcal_per_day |-> supplements_kcal_per_day,
         treats_kcal_per_day |-> req.treats_kcal,
         weighted_avg_kcal_per_100g |-> weighted_avg_kcal_per_100g,
         actual_batch_kcal |-> actual_batch_kcal,
         total_grams_per_day |-> total_grams_per_day,
         total_meals |-> total_meals,
         total_batch_kcal |-> RMul(homemade_kcal, F(req.num_days)),
         total_batch_grams |-> total_batch_grams,
         grams_per_container |->
            IF total_meals > 0 THEN RDiv(total_batch_grams, F(total_meals)) ELSE F(0),
         food_figures |-> MapSeq(food_ingredients, LAMBDA d :
            FoodFigures(d, total_grams_per_day, recipe.meals_per_day, req.num_days)),
         oil_figures |-> MapSeq(oil_ingredients, LAMBDA d : OilFigures(d, recipe.meals_per_day)),
         totals |-> aggregate_nutrients(MapSeq(food_ingredients, LAMBDA d :
            [grams |-> FoodFigures(d, total_grams_per_day, recipe.meals_per_day,
                                   req.num_days).grams_per_day,
             per100 |-> d.per100])),
         total_kcal_accounted |->
            TotalKcalAccounted(actual_batch_kcal, req.kibble_kcal, oils_kcal_per_day,
                               supplements_kcal_per_day, req.treats_kcal)]

\* the PlanComputeResponse built from the handler's locals
ComputeResponse(dog, recipe, req, l) ==
    LET batch_ingredients == MapSeq(l.food_ingredients, LAMBDA d :
            FoodPortion(d, l.total_grams_per_day, recipe.meals_per_day, req.num_days))
        oils == MapSeq(l.oil_ingredients, LAMBDA d : OilPortion(d, recipe.meals_per_day))
        supplements == MapSeq(l.supplement_ingredients, SupplementPortion)
        treats == MapSeq(l.treat_ingredients, TreatPortion)
        aafco_checks == AafcoChecks(l.totals)
        warnings ==
            Flatten(MapSeq(l.food_ingredients, LAMBDA d :
                FoodWarnings(d, l.total_grams_per_day, recipe.meals_per_day, req.num_days)))
            \o Flatten(MapSeq(l.oil_ingredients, LAMBDA d :
                OilWarnings(d, recipe.meals_per_day, dog.weight_kg)))
            \o MapSeq(SelectSeq(aafco_checks, LAMBDA c : c.warning # None),
                      LAMBDA c : c.warning)
    IN  [status_code |-> 200,
         dog_id |-> dog.id,
         recipe_id |-> recipe.id,
         target_kcal |-> Round2(l.target_kcal),
         kibble_kcal |-> req.kibble_kcal,
         treats_kcal |-> req.treats_kcal,
         homemade_kcal |-> Round2(l.homemade_kcal),
         per_meal_kcal |-> Round2(RDiv(l.actual_batch_kcal, F(recipe.meals_per_day))),
         meals_per_day |-> recipe.meals_per_day,
         num_days |-> req.num_days,
         total_meals |-> l.total_meals,
         total_batch_kcal |-> Round2(RMul(l.actual_batch_kcal, F(req.num_days))),
         total_batch_grams |-> Round2(l.total_batch_grams),
         grams_per_container |-> Round2(l.grams_per_container),
         batch_ingredients |-> batch_ingredients,
         oils |-> oils,
         supplements |-> supplements,
         treats |-> treats,
         ingredient_portions |-> batch_ingredients \o oils \o supplements \o treats,
         calorie_budget |->
            [target_daily_kcal |-> Round2(l.target_kcal),
             homemade_food_kcal |-> Round2(l.actual_batch_kcal),
             kibble_kcal |-> Round2(req.kibble_kcal),
             oils_kcal |-> Round2(l.oils_kcal_per_day),
             supplements_kcal |-> Round2(l.supplements_kcal_per_day),
             treats_kcal |-> Round2(l.treats_kcal_per_day),
             total_kcal |-> Round2(l.total_kcal_accounted),
             remaining_kcal |-> Round2(RSub(l.target_kcal, l.total_kcal_accounted))],
         nutrient_totals |-> [c \in Channels |-> Round2(l.totals[c])],
         aafco_checks |-> aafco_checks,
         warnings |-> warnings]

\* ComputePlanRow with the homemade and target columns exchanged
ComputePlanRow_columns_exchanged(dog, recipe, req, l) ==
    FeedingPlan(NextId(plans), dog.id, recipe.id, req.kibble_kcal, req.treats_kcal,
                Round2(l.target_kcal), Round2(l.homemade_kcal))

\* the FeedingPlan row saved by a successful call
ComputePlanRow(dog, recipe, req, l) ==
    FeedingPlan(NextId(plans), dog.id, recipe.id, req.kibble_kcal, req.treats_kcal,
                Round2(l.homemade_kcal), Round2(l.target_kcal))

\* ComputeError with the percentage check made before the emptiness check
ComputeError_sum_before_empty(req) ==
    IF req.dog_id \notin DOMAIN dogs
    THEN HTTPException(404, "Dog not found")
    ELSE IF req.recipe_id \notin DOMAIN recipes
    THEN HTTPException(404, "Recipe not found")
    ELSE IF PercentageRejected(TotalPercentage(RecipeEntries(recipe_ingredients, req.recipe_id)))
    THEN HTTPException(400, "Recipe percentages must sum to 100%")
    ELSE IF RecipeEntries(recipe_ingredients, req.recipe_id) = <<>>
    THEN HTTPException(400, "Recipe has no ingredients")
    ELSE None

\* the checks made before anything is computed: the exception raised, or None
ComputeError(req) ==
    IF req.dog_id \notin DOMAIN dogs
    THEN HTTPException(404, "Dog not found")
    ELSE IF req.recipe_id \notin DOMAIN recipes
    THEN HTTPException(404, "Recipe not found")
    ELSE IF RecipeEntries(recipe_ingredients, req.recipe_id) = <<>>
    THEN HTTPException(400, "Recipe has no ingredients")
    ELSE IF PercentageRejected(TotalPercentage(RecipeEntries(recipe_ingredients, req.recipe_id)))
    THEN HTTPException(400, "Recipe percentages must sum to 100%")
    ELSE None

(***************************************************************************)
(* Requests                                                                *)
(***************************************************************************)
\* one more plan than this is never stored
MaxPlans == 1

\* no more weight logs, feeding logs or clock ticks than these
MaxWeightLogs == 3

MaxFeedingLogs == 1

MaxClock == 2

\* no more dogs than this
MaxDogs == 3

\* no more recipes than this, and no more entries in one recipe
MaxRecipes == 9

MaxEntries == 4

\* plans stored side by side, and the last id given to a plan
MaxStoredPlans == 2

MaxPlanId == 3

\* ticks of the clock in one day
TicksPerDay == 2

\* ids a request may name: the stored ones and one that resolves to nothing
ReqDogIds == {1, 2, 3}

ReqRecipeIds == {1, 2, 3, 4, 5, 6, 7, 8}

\* dogs, recipes, kibble_kcal, treats_kcal and num_days of the requests of a session
SeqDogIds == {1, 2, 3}

SeqRecipeIds == {1, 2, 3, 4, 8}

SeqKibble == {F(0), F(200)}

SeqTreats == {F(50)}

SeqNumDays == {3}

\* kibble_kcal, treats_kcal and num_days of a single request
CallKibble == {F(0), F(200), F(850)}

CallTreats == {F(0), F(50), Rat(401, 8)}

CallNumDays == {1, 3}

\* no request handled yet
NoRequest == [op |-> "none"]

PlanComputeRequest(dog_id, recipe_id, kibble_kcal, treats_kcal, num_days) ==
    [op |-> "compute", dog_id |-> dog_id, recipe_id |-> recipe_id,
     kibble_kcal |-> kibble_kcal, treats_kcal |-> treats_kcal, num_days |-> num_days]

Init ==
    /\ dogs = Table(SeedDogs)
    /\ ingredients = Table(SeedIngredients)
    /\ recipes = Table(SeedRecipes)
    /\ recipe_ingredients = SeedRecipeIngredients
    /\ plans = <<>>
    /\ weight_logs = SeedWeightLogs
    /\ feeding_logs = <<>>
    /\ clock = 0
    /\ request = NoRequest
    /\ resp = None
    /\ locals = None

\* the handler, with room for max_plans stored plans
compute_feeding_plan_upto(req, max_plans) ==
    /\ request' = req
    /\ UNCHANGED clock
    /\ IF ComputeError(req) # None
       THEN /\ resp' = ComputeError(req)
            /\ locals' = None
            /\ UNCHANGED store
       ELSE LET dog == dogs[req.dog_id]
                recipe == recipes[req.recipe_id]
                l == ComputeLocals(dog, recipe, req)
            IN  /\ Len(plans) < max_plans
                /\ locals' = l
                /\ resp' = ComputeResponse(dog, recipe, req, locals')
                /\ plans' = Append(plans, ComputePlanRow(dog, recipe, req, locals'))
                /\ UNCHANGED <<dogs, ingredients, recipes, recipe_ingredients,
                               weight_logs, feeding_logs>>

compute_feeding_plan(req) == compute_feeding_plan_upto(req, MaxPlans)

PlanComputeRequests(DogIds, RecipeIds, Kibble, Treats, NumDays) ==
    { PlanComputeRequest(d, r, k, t, n) :
        d \in DogIds, r \in RecipeIds, k \in Kibble, t \in Treats, n \in NumDays }

ComputeOver(requests) ==
    \E req \in requests : compute_feeding_plan(req)

(***************************************************************************)
(* PUT /plan/{plan_id} and DELETE /plan/{plan_id}  (app/api/plans.py)      *)
(***************************************************************************)
\* the position of the row with this id, 0 when there is none
RowOf(rows, id) ==
    IF \E k \in 1..Len(rows) : rows[k].id = id
    THEN CHOOSE k \in 1..Len(rows) : rows[k].id = id
    ELSE 0

\* update_feeding_plan without the recalculation of homemade_kcal
update_feeding_plan_stale_homemade(plan_id, update_data) ==
    /\ request' = [op |-> "update_feeding_plan", plan_id |-> plan_id, update_data |-> update_data]
    /\ locals' = None
    /\ UNCHANGED clock
    /\ IF RowOf(plans, plan_id) = 0
       THEN /\ resp' = HTTPException(404, "Feeding plan not found")
            /\ UNCHANGED store
       ELSE LET k == RowOf(plans, plan_id)
                plan == [f \in DOMAIN plans[k] |->
                            IF f \in DOMAIN update_data THEN update_data[f] ELSE plans[k][f]]
            IN  IF plan.kibble_kcal = None \/ plan.treats_kcal = None
                THEN /\ resp' = HTTPException(500, "Internal Server Error")
                     /\ UNCHANGED store
                ELSE /\ plans' = [plans EXCEPT ![k] = plan]
                     /\ resp' = [status_code |-> 200, plan |-> plan]
                     /\ UNCHANGED <<dogs, ingredients, recipes, recipe_ingredients,
                                    weight_logs, feeding_logs>>

\* update_data: the fields set in the request body; a field set to null makes
\* the recalculation raise TypeError before the commit
update_feeding_plan(plan_id, update_data) ==
    /\ request' = [op |-> "update_feeding_plan", plan_id |-> plan_id, update_data |-> update_data]
    /\ locals' = None
    /\ UNCHANGED clock
    /\ IF RowOf(plans, plan_id) = 0
       THEN /\ resp' = HTTPException(404, "Feeding plan not found")
            /\ UNCHANGED store
       ELSE LET k == RowOf(plans, plan_id)
                plan == [f \in DOMAIN plans[k] |->
                            IF f \in DOMAIN update_data THEN update_data[f] ELSE plans[k][f]]
            IN  IF plan.kibble_kcal = None \/ plan.treats_kcal = None
                THEN /\ resp' = HTTPException(500, "Internal Server Error")
                     /\ UNCHANGED store
                ELSE LET updated ==
                            [plan EXCEPT !.homemade_kcal =
                                calculate_homemade_kcal(plan.target_kcal, plan.kibble_kcal,
                                                        plan.treats_kcal)]
                     IN  /\ plans' = [plans EXCEPT ![k] = updated]
                         /\ resp' = [status_code |-> 200, plan |-> updated]
                         /\ UNCHANGED <<dogs, ingredients, recipes, recipe_ingredients,
                                        weight_logs, feeding_logs>>

delete_feeding_plan(plan_id) ==
    /\ request' = [op |-> "delete_feeding_plan", plan_id |-> plan_id]
    /\ locals' = None
    /\ UNCHANGED clock
    /\ IF RowOf(plans, plan_id) = 0
       THEN /\ resp' = HTTPException(404, "Feeding plan not found")
            /\ UNCHANGED store
       ELSE /\ plans' = SelectSeq(plans, LAMBDA p : p.id # plan_id)
            /\ resp' = [status_code |-> 204]
            /\ UNCHANGED <<dogs, ingredients, recipes, recipe_ingredients,
                           weight_logs, feeding_logs>>

(***************************************************************************)
(* Kibble and mineral-ratio calculations (app/core/calculations.py)        *)
(***************************************************************************)
MODIFIED_ATWATER == [protein |-> Rat(35, 10), fat |-> Rat(85, 10), carbs |-> Rat(35, 10)]

EGGSHELL_CALCIUM_PCT == 38

\* calculate_kibble_nfe returning the difference without the clamp at 0
calculate_kibble_nfe_unclamped(protein_pct, fat_pct, fiber_pct, moisture_pct, ash_pct) ==
    RSub(F(100), RAdd(RAdd(RAdd(RAdd(protein_pct, fat_pct), fiber_pct),
                           moisture_pct), ash_pct))

calculate_kibble_nfe(protein_pct, fat_pct, fiber_pct, moisture_pct, ash_pct) ==
    LET nfe == RSub(F(100), RAdd(RAdd(RAdd(RAdd(protein_pct, fat_pct), fiber_pct),
                                      moisture_pct), ash_pct))
    IN  RMax(F(0), nfe)

\* k: the KibbleInput of the request
calculate_kibble_nutrients(k) ==
    LET nfe_pct == calculate_kibble_nfe(k.protein_pct, k.fat_pct, k.fiber_pct,
                                        k.moisture_pct, k.ash_pct)
        protein_g == RMul(RDiv(k.protein_pct, F(100)), k.amount_grams)
        fat_g == RMul(RDiv(k.fat_pct, F(100)), k.amount_grams)
        carbs_g == RMul(RDiv(nfe_pct, F(100)), k.amount_grams)
        fiber_g == RMul(RDiv(k.fiber_pct, F(100)), k.amount_grams)
        kcal == RAdd(RAdd(RMul(protein_g, MODIFIED_ATWATER.protein),
                          RMul(fat_g, MODIFIED_ATWATER.fat)),
                     RMul(carbs_g, MODIFIED_ATWATER.carbs))
        calcium_mg == IF Truthy(k.calcium_pct)
                      THEN RMul(RMul(RDiv(k.calcium_pct, F(100)), k.amount_grams), F(1000))
                      ELSE F(0)
        phosphorus_mg == IF Truthy(k.phosphorus_pct)
                         THEN RMul(RMul(RDiv(k.phosphorus_pct, F(100)), k.amount_grams), F(1000))
                         ELSE F(0)
    IN  [kcal |-> Round2(kcal),
         protein_g |-> Round2(protein_g),
         fat_g |-> Round2(fat_g),
         carbs_g |-> Round2(carbs_g),
         fiber_g |-> Round2(fiber_g),
         calcium_mg |-> Round2(calcium_mg),
         phosphorus_mg |-> Round2(phosphorus_mg),
         nfe_pct |-> Round2(nfe_pct),
         carb_pct_of_kibble |-> Round2(nfe_pct)]

\* analyze_ca_p_ratio with a ratio of exactly 1.1 counted as acceptable
analyze_ca_p_ratio_optimal_above(total_calcium_mg, total_phosphorus_mg) ==
    IF RLe(total_phosphorus_mg, F(0))
    THEN [total_calcium_mg |-> Round2(total_calcium_mg),
          total_phosphorus_mg |-> F(0),
          ca_p_ratio |-> F(0),
          status |-> "unknown",
          calcium_gap_mg |-> None,
          eggshell_recommendation_g |-> None]
    ELSE LET actual_ratio == RDiv(total_calcium_mg, total_phosphorus_mg)
             calcium_gap_mg == RSub(RMul(total_phosphorus_mg, F(1)), total_calcium_mg)
             eggshell_g == RDiv(calcium_gap_mg,
                                RMul(RDiv(F(EGGSHELL_CALCIUM_PCT), F(100)), F(1000)))
             status == IF RGt(actual_ratio, Rat(11, 10)) /\ RLe(actual_ratio, F(2))
                       THEN "optimal"
                       ELSE IF RGe(actual_ratio, F(1)) /\ RLe(actual_ratio, Rat(11, 10))
                       THEN "acceptable"
                       ELSE IF RLt(actual_ratio, F(1)) THEN "low"
                       ELSE "high"
         IN  [total_calcium_mg |-> Round2(total_calcium_mg),
              total_phosphorus_mg |-> Round2(total_phosphorus_mg),
              ca_p_ratio |-> Round2(actual_ratio),
              status |-> status,
              calcium_gap_mg |-> IF status = "low" THEN Round2(calcium_gap_mg) ELSE None,
              eggshell_recommendation_g |-> IF status = "low" THEN Round2(eggshell_g) ELSE None]

\* analyze_ca_p_ratio returning the gap and the eggshell mass as computed, not rounded
analyze_ca_p_ratio_unrounded(total_calcium_mg, total_phosphorus_mg) ==
    IF RLe(total_phosphorus_mg, F(0))
    THEN [total_calcium_mg |-> Round2(total_calcium_mg),
          total_phosphorus_mg |-> F(0),
          ca_p_ratio |-> F(0),
          status |-> "unknown",
          calcium_gap_mg |-> None,
          eggshell_recommendation_g |-> None]
    ELSE LET actual_ratio == RDiv(total_calcium_mg, total_phosphorus_mg)
             calcium_gap_mg == RSub(RMul(total_phosphorus_mg, F(1)), total_calcium_mg)
             eggshell_g == RDiv(calcium_gap_mg,
                                RMul(RDiv(F(EGGSHELL_CALCIUM_PCT), F(100)), F(1000)))
             status == IF RGe(actual_ratio, Rat(11, 10)) /\ RLe(actual_ratio, F(2))
                       THEN "optimal"
                       ELSE IF RGe(actual_ratio, F(1)) /\ RLt(actual_ratio, Rat(11, 10))
                       THEN "acceptable"
                       ELSE IF RLt(actual_ratio, F(1)) THEN "low"
                       ELSE "high"
         IN  [total_calcium_mg |-> Round2(total_calcium_mg),
              total_phosphorus_mg |-> Round2(total_phosphorus_mg),
              ca_p_ratio |-> Round2(actual_ratio),
              status |-> status,
              calcium_gap_mg |-> IF status = "low" THEN calcium_gap_mg ELSE None,
              eggshell_recommendation_g |-> IF status = "low" THEN eggshell_g ELSE None]

analyze_ca_p_ratio(total_calcium_mg, total_phosphorus_mg) ==
    IF RLe(total_phosphorus_mg, F(0))
    THEN [total_calcium_mg |-> Round2(total_calcium_mg),
          total_phosphorus_mg |-> F(0),
          ca_p_ratio |-> F(0),
          status |-> "unknown",
          calcium_gap_mg |-> None,
          eggshell_recommendation_g |-> None]
    ELSE LET actual_ratio == RDiv(total_calcium_mg, total_phosphorus_mg)
             calcium_gap_mg == RSub(RMul(total_phosphorus_mg, F(1)), total_calcium_mg)
             eggshell_g == RDiv(calcium_gap_mg,
                                RMul(RDiv(F(EGGSHELL_CALCIUM_PCT), F(100)), F(1000)))
             status == IF RGe(actual_ratio, Rat(11, 10)) /\ RLe(actual_ratio, F(2))
                       THEN "optimal"
                       ELSE IF RGe(actual_ratio, F(1)) /\ RLt(actual_ratio, Rat(11, 10))
                       THEN "acceptable"
                       ELSE IF RLt(actual_ratio, F(1)) THEN "low"
                       ELSE "high"
         IN  [total_calcium_mg |-> Round2(total_calcium_mg),
              total_phosphorus_mg |-> Round2(total_phosphorus_mg),
              ca_p_ratio |-> Round2(actual_ratio),
              status |-> status,
              calcium_gap_mg |-> IF status = "low" THEN Round2(calcium_gap_mg) ELSE None,
              eggshell_recommendation_g |-> IF status = "low" THEN Round2(eggshell_g) ELSE None]

combine_nutrient_totals(kibble_nutrients, fresh_totals) ==
    [c \in Channels |->
        IF c \in {"kcal", "protein_g", "fat_g", "carbs_g", "calcium_mg", "phosphorus_mg"}
        THEN RAdd(kibble_nutrients[c], fresh_totals[c])
        ELSE fresh_totals[c]]

(***************************************************************************)
(* POST /plan/simulate  (app/api/plans.py, simulate_nutrition)             *)
(***************************************************************************)
\* round(x, 1)
Round1(x) ==
    LET i == x[1] \div x[2]
        f == x[1] - i * x[2]
        q == (f * 10) \div x[2]
        r == f * 10 - q * x[2]
        h == IF 2 * r < x[2] THEN q
             ELSE IF 2 * r > x[2] THEN q + 1
             ELSE IF q % 2 = 0 THEN q ELSE q + 1
    IN  RAdd(F(i), Rat(h, 10))

\* adjustment_map.get with the new percentage added to the stored one
AdjustmentGet_added(adjustments, ingredient_id, dflt) ==
    LET hits == {i \in 1..Len(adjustments) : adjustments[i].ingredient_id = ingredient_id}
    IN  IF hits = {} THEN dflt
        ELSE RAdd(dflt, adjustments[CHOOSE i \in hits : \A j \in hits : j <= i].new_percentage)

\* adjustment_map.get(ingredient_id, dflt): the last adjustment of an id wins
AdjustmentGet(adjustments, ingredient_id, dflt) ==
    LET hits == {i \in 1..Len(adjustments) : adjustments[i].ingredient_id = ingredient_id}
    IN  IF hits = {} THEN dflt
        ELSE adjustments[CHOOSE i \in hits : \A j \in hits : j <= i].new_percentage

reference_grams == 1000

\* before_ingredients / after_ingredients: every entry of the recipe, scaled to 1000 g
SimulateIngredients(entries, adjustments) ==
    MapSeq(entries, LAMBDA ri :
        [grams |-> RMul(RDiv(AdjustmentGet(adjustments, ri.ingredient_id, ri.percentage),
                             F(100)), F(reference_grams)),
         per100 |-> ingredients[ri.ingredient_id].per100])

DisplayName(nutrient) ==
    CASE nutrient = "protein"    -> "Protein"
      [] nutrient = "fat"        -> "Fat"
      [] nutrient = "calcium"    -> "Calcium"
      [] nutrient = "phosphorus" -> "Phosphorus"
      [] nutrient = "iron"       -> "Iron"
      [] nutrient = "zinc"       -> "Zinc"
      [] nutrient = "vitamin_a"  -> "Vitamin A"
      [] nutrient = "vitamin_d"  -> "Vitamin D"
      [] nutrient = "vitamin_e"  -> "Vitamin E"

\* str.lower() of a display name
NameLower(display_name) ==
    CASE display_name = "Protein"    -> "protein"
      [] display_name = "Fat"        -> "fat"
      [] display_name = "Calcium"    -> "calcium"
      [] display_name = "Phosphorus" -> "phosphorus"
      [] display_name = "Iron"       -> "iron"
      [] display_name = "Zinc"       -> "zinc"
      [] display_name = "Vitamin A"  -> "vitamin a"
      [] display_name = "Vitamin D"  -> "vitamin d"
      [] display_name = "Vitamin E"  -> "vitamin e"

color_map(status) ==
    CASE status = "excellent" -> "#10b981"
      [] status = "good"      -> "#22c55e"
      [] status = "caution"   -> "#eab308"
      [] status = "bad"       -> "#f97316"
      [] status = "dangerous" -> "#ef4444"

MappedNutrients == {"protein", "fat", "calcium", "phosphorus", "iron", "zinc",
                    "vitamin_a", "vitamin_d", "vitamin_e"}

status_order(status) ==
    CASE status = "excellent" -> 0
      [] status = "good"      -> 1
      [] status = "caution"   -> 2
      [] status = "bad"       -> 3
      [] status = "dangerous" -> 4

\* GradeNutrient with the excellent band reaching up to 200% of the minimum
GradeNutrient_wide_band(req, combined_totals) ==
    LET per_1000 == nutrient_per_1000kcal(NutrientMapping(combined_totals, req.nutrient),
                                          combined_totals["kcal"])
        pct_of_min == IF RGt(req.min_per_1000kcal, F(0))
                      THEN RMul(RDiv(per_1000, req.min_per_1000kcal), F(100))
                      ELSE F(100)
        pct_of_max == IF Truthy(req.max_per_1000kcal)
                      THEN RMul(RDiv(per_1000, req.max_per_1000kcal), F(100))
                      ELSE None
        grade ==
            IF RLt(per_1000, RMul(req.min_per_1000kcal, Rat(5, 10)))
            THEN [status |-> "bad", warning |-> "severely deficient"]
            ELSE IF RLt(per_1000, req.min_per_1000kcal)
            THEN [status |-> "caution", warning |-> "below minimum"]
            ELSE IF Truthy(req.max_per_1000kcal) /\ RGt(per_1000, req.max_per_1000kcal)
            THEN [status |-> "dangerous", warning |-> "EXCEEDS SAFE LIMIT"]
            ELSE IF Truthy(req.max_per_1000kcal)
                    /\ RGt(per_1000, RMul(req.max_per_1000kcal, Rat(8, 10)))
            THEN [status |-> "caution", warning |-> "approaching maximum limit"]
            ELSE IF RGe(pct_of_min, F(100)) /\ RLe(pct_of_min, F(200))
            THEN [status |-> "excellent", warning |-> ""]
            ELSE [status |-> "good", warning |-> ""]
    IN  [nutrient |-> DisplayName(req.nutrient),
         per_1000 |-> per_1000,
         amount |-> Round2(per_1000),
         percent_of_min |-> Round1(pct_of_min),
         percent_of_max |-> IF Truthy(pct_of_max) THEN Round1(pct_of_max) ELSE None,
         status |-> grade.status,
         warning |-> grade.warning]

\* GradeNutrient raising no warning for an amount between half the minimum and the minimum
GradeNutrient_silent_caution(req, combined_totals) ==
    LET per_1000 == nutrient_per_1000kcal(NutrientMapping(combined_totals, req.nutrient),
                                          combined_totals["kcal"])
        pct_of_min == IF RGt(req.min_per_1000kcal, F(0))
                      THEN RMul(RDiv(per_1000, req.min_per_1000kcal), F(100))
                      ELSE F(100)
        pct_of_max == IF Truthy(req.max_per_1000kcal)
                      THEN RMul(RDiv(per_1000, req.max_per_1000kcal), F(100))
                      ELSE None
        grade ==
            IF RLt(per_1000, RMul(req.min_per_1000kcal, Rat(5, 10)))
            THEN [status |-> "bad", warning |-> "severely deficient"]
            ELSE IF RLt(per_1000, req.min_per_1000kcal)
            THEN [status |-> "caution", warning |-> ""]
            ELSE IF Truthy(req.max_per_1000kcal) /\ RGt(per_1000, req.max_per_1000kcal)
            THEN [status |-> "dangerous", warning |-> "EXCEEDS SAFE LIMIT"]
            ELSE IF Truthy(req.max_per_1000kcal)
                    /\ RGt(per_1000, RMul(req.max_per_1000kcal, Rat(8, 10)))
            THEN [status |-> "caution", warning |-> "approaching maximum limit"]
            ELSE IF RGe(pct_of_min, F(100)) /\ RLe(pct_of_min, F(150))
            THEN [status |-> "excellent", warning |-> ""]
            ELSE [status |-> "good", warning |-> ""]
    IN  [nutrient |-> DisplayName(req.nutrient),
         per_1000 |-> per_1000,
         amount |-> Round2(per_1000),
         percent_of_min |-> Round1(pct_of_min),
         percent_of_max |-> IF Truthy(pct_of_max) THEN Round1(pct_of_max) ELSE None,
         status |-> grade.status,
         warning |-> grade.warning]

\* the grading of one reference row against the combined totals
GradeNutrient(req, combined_totals) ==
    LET per_1000 == nutrient_per_1000kcal(NutrientMapping(combined_totals, req.nutrient),
                                          combined_totals["kcal"])
        pct_of_min == IF RGt(req.min_per_1000kcal, F(0))
                      THEN RMul(RDiv(per_1000, req.min_per_1000kcal), F(100))
                      ELSE F(100)
        pct_of_max == IF Truthy(req.max_per_1000kcal)
                      THEN RMul(RDiv(per_1000, req.max_per_1000kcal), F(100))
                      ELSE None
        grade ==
            IF RLt(per_1000, RMul(req.min_per_1000kcal, Rat(5, 10)))
            THEN [status |-> "bad", warning |-> "severely deficient"]
            ELSE IF RLt(per_1000, req.min_per_1000kcal)
            THEN [status |-> "caution", warning |-> "below minimum"]
            ELSE IF Truthy(req.max_per_1000kcal) /\ RGt(per_1000, req.max_per_1000kcal)
            THEN [status |-> "dangerous", warning |-> "EXCEEDS SAFE LIMIT"]
            ELSE IF Truthy(req.max_per_1000kcal)
                    /\ RGt(per_1000, RMul(req.max_per_1000kcal, Rat(8, 10)))
            THEN [status |-> "caution", warning |-> "approaching maximum limit"]
            ELSE IF RGe(pct_of_min, F(100)) /\ RLe(pct_of_min, F(150))
            THEN [status |-> "excellent", warning |-> ""]
            ELSE [status |-> "good", warning |-> ""]
    IN  [nutrient |-> DisplayName(req.nutrient),
         per_1000 |-> per_1000,
         amount |-> Round2(per_1000),
         percent_of_min |-> Round1(pct_of_min),
         percent_of_max |-> IF Truthy(pct_of_max) THEN Round1(pct_of_max) ELSE None,
         status |-> grade.status,
         warning |-> grade.warning]

\* the graded rows, in reference-row order; none when the combined kcal is not > 0
GradeAll(combined_totals) ==
    IF RGt(combined_totals["kcal"], F(0))
    THEN MapSeq(SelectSeq(aafco_requirements, LAMBDA req : req.nutrient \in MappedNutrients),
                LAMBDA req : GradeNutrient(req, combined_totals))
    ELSE <<>>

\* overall_worst taken from the last graded nutrient alone
OverallWorst_last(grades) ==
    IF grades = <<>> THEN "excellent" ELSE grades[Len(grades)].status

\* overall_worst after the loop: raised whenever a status is strictly worse
RECURSIVE OverallWorst(_)
OverallWorst(grades) ==
    IF grades = <<>> THEN "excellent"
    ELSE LET n == Len(grades)
             sofar == OverallWorst(SubSeq(grades, 1, n - 1))
         IN  IF status_order(grades[n].status) > status_order(sofar)
             THEN grades[n].status ELSE sofar

RoundTotals(totals) == [c \in Channels |-> Round2(totals[c])]

SimulateError(req) ==
    IF req.dog_id \notin DOMAIN dogs
    THEN HTTPException(404, "Dog not found")
    ELSE IF req.recipe_id \notin DOMAIN recipes
    THEN HTTPException(404, "Recipe not found")
    ELSE None

\* the local variables of the handler when it returns
SimulateLocals(req) ==
    LET entries == RecipeEntries(recipe_ingredients, req.recipe_id)
        before_totals == aggregate_nutrients(SimulateIngredients(entries, <<>>))
        fresh_totals == aggregate_nutrients(SimulateIngredients(entries, req.ingredient_adjustments))
        kibble_nutrients == IF req.kibble # None THEN calculate_kibble_nutrients(req.kibble[1])
                            ELSE None
        combined_totals == IF req.kibble # None
                           THEN combine_nutrient_totals(kibble_nutrients, fresh_totals)
                           ELSE fresh_totals
    IN  [before_totals |-> before_totals,
         fresh_totals |-> fresh_totals,
         kibble_nutrients |-> kibble_nutrients,
         combined_totals |-> combined_totals,
         ca_p_result |-> analyze_ca_p_ratio(combined_totals["calcium_mg"],
                                            combined_totals["phosphorus_mg"]),
         grades |-> GradeAll(combined_totals)]

\* the HybridSimulateResponse built from the handler's locals
SimulateResponse(req, l) ==
    LET high_filler_flag == req.kibble # None /\ RGt(l.kibble_nutrients.carb_pct_of_kibble, F(40))
        warnings ==
            (IF high_filler_flag THEN << <<"HIGH FILLER CONTENT">> >> ELSE <<>>)
            \o (IF l.ca_p_result.status = "low" THEN << <<"Ca:P LOW">> >> ELSE <<>>)
            \o MapSeq(SelectSeq(l.grades, LAMBDA g : g.warning # ""),
                      LAMBDA g : <<g.warning, g.nutrient>>)
        recommendations ==
            (IF l.ca_p_result.status = "low" /\ Truthy(l.ca_p_result.eggshell_recommendation_g)
             THEN << <<"Add eggshell powder", l.ca_p_result.eggshell_recommendation_g>> >>
             ELSE <<>>)
            \o MapSeq(SelectSeq(l.grades, LAMBDA g : g.status \in {"bad", "dangerous"}),
                      LAMBDA g : IF g.status = "bad"
                                 THEN <<"Add more foods rich in", NameLower(g.nutrient)>>
                                 ELSE <<"REDUCE foods high in", NameLower(g.nutrient)>>)
    IN  [status_code |-> 200,
         before |-> RoundTotals(l.before_totals),
         after |-> [kibble |-> IF req.kibble # None
                               THEN << [c \in Channels |->
                                        IF c \in {"kcal", "protein_g", "fat_g", "carbs_g",
                                                  "calcium_mg", "phosphorus_mg"}
                                        THEN l.kibble_nutrients[c] ELSE F(0)] >>
                               ELSE None,
                    fresh |-> RoundTotals(l.fresh_totals),
                    combined |-> RoundTotals(l.combined_totals)],
         nutrient_status |-> MapSeq(l.grades, LAMBDA g :
            [nutrient |-> g.nutrient, amount |-> g.amount,
             percent_of_min |-> g.percent_of_min, percent_of_max |-> g.percent_of_max,
             status |-> g.status, color |-> color_map(g.status)]),
         overall_status |-> OverallWorst(l.grades),
         warnings |-> warnings,
         recommendations |-> recommendations,
         ca_p_analysis |-> l.ca_p_result,
         kibble_analysis |-> IF req.kibble # None
                             THEN << [carb_pct |-> l.kibble_nutrients.carb_pct_of_kibble,
                                      high_filler_flag |-> high_filler_flag,
                                      kcal_from_kibble |-> l.kibble_nutrients.kcal,
                                      protein_g |-> l.kibble_nutrients.protein_g,
                                      fat_g |-> l.kibble_nutrients.fat_g,
                                      carbs_g |-> l.kibble_nutrients.carbs_g] >>
                             ELSE None]

IngredientAdjustment(ingredient_id, new_percentage) ==
    [ingredient_id |-> ingredient_id, new_percentage |-> new_percentage]

KibbleInput(protein_pct, fat_pct, fiber_pct, moisture_pct, ash_pct, calcium_pct, phosphorus_pct, amount_grams) ==
    [protein_pct |-> protein_pct, fat_pct |-> fat_pct, fiber_pct |-> fiber_pct,
     moisture_pct |-> moisture_pct, ash_pct |-> ash_pct, calcium_pct |-> calcium_pct,
     phosphorus_pct |-> phosphorus_pct, amount_grams |-> amount_grams]

\* kibble is None or a one-element tuple holding the label
HybridSimulateRequest(dog_id, recipe_id, ingredient_adjustments, kibble) ==
    [op |-> "simulate", dog_id |-> dog_id, recipe_id |-> recipe_id,
     ingredient_adjustments |-> ingredient_adjustments, kibble |-> kibble]

\* simulate_nutrition writing the overrides back to the recipe entries
simulate_nutrition_persisting(req) ==
    /\ request' = req
    /\ UNCHANGED clock
    /\ IF SimulateError(req) # None
       THEN /\ resp' = SimulateError(req)
            /\ locals' = None
            /\ UNCHANGED store
       ELSE LET l == SimulateLocals(req)
            IN  /\ locals' = l
                /\ resp' = SimulateResponse(req, locals')
                /\ recipe_ingredients' =
                      [i \in 1..Len(recipe_ingredients) |->
                         IF recipe_ingredients[i].recipe_id = req.recipe_id
                         THEN [recipe_ingredients[i] EXCEPT !.percentage =
                                 AdjustmentGet(req.ingredient_adjustments,
                                               recipe_ingredients[i].ingredient_id, @)]
                         ELSE recipe_ingredients[i]]
                /\ UNCHANGED <<dogs, ingredients, recipes, plans, weight_logs, feeding_logs>>

simulate_nutrition(req) ==
    /\ request' = req
    /\ UNCHANGED clock
    /\ IF SimulateError(req) # None
       THEN /\ resp' = SimulateError(req)
            /\ locals' = None
       ELSE LET l == SimulateLocals(req)
            IN  /\ locals' = l
                /\ resp' = SimulateResponse(req, locals')
    /\ UNCHANGED store

\* adjustment lists of the requests of a session
SeqAdjustments == { <<>>, <<IngredientAdjustment(1, F(50))>> }

SeqSimDogIds == {1, 3}

SeqSimRecipeIds == {1, 8}

\* adjustment lists and kibble labels of a single request
CallAdjustments ==
    { <<>>,
      <<IngredientAdjustment(8, F(10))>>,
      <<IngredientAdjustment(1, F(0)), IngredientAdjustment(3, F(40))>>,
      <<IngredientAdjustment(2, F(10)), IngredientAdjustment(2, F(70))>>,
      <<IngredientAdjustment(99, F(25))>> }

\* the percentages stored for recipe 1, sent back as adjustments
CallStoredAdjustments ==
    <<IngredientAdjustment(1, F(60)), IngredientAdjustment(2, F(30)),
      IngredientAdjustment(3, F(8)), IngredientAdjustment(8, F(2))>>

CallKibbleLabels ==
    { None,
      <<KibbleInput(F(26), F(16), F(4), F(10), F(7), Rat(12, 10), F(1), F(40))>>,
      <<KibbleInput(F(18), F(8), F(5), F(10), F(7), None, None, F(120))>>,
      <<KibbleInput(F(26), F(16), F(4), F(10), F(7), F(2), F(1), F(40))>>,
      <<KibbleInput(F(26), F(16), F(4), F(10), F(7), Rat(25, 10), F(1), F(40))>> }

HybridSimulateRequests(DogIds, RecipeIds, Adjustments, Labels) ==
    { HybridSimulateRequest(d, r, a, k) :
        d \in DogIds, r \in RecipeIds, a \in Adjustments, k \in Labels }

SimulateOver(requests) ==
    \E req \in requests : simulate_nutrition(req)

(***************************************************************************)
(* Dog profile and log endpoints (app/api/dogs.py, app/api/logs.py)        *)
(***************************************************************************)
get_weight_status(current_kg, target_kg) ==
    IF target_kg = None THEN "no_target"
    ELSE LET diff == RSub(current_kg, target_kg)
         IN  IF RLt(Rat(Abs(diff[1]), diff[2]), Rat(1, 2)) THEN "at_target"
             ELSE IF RGt(diff, F(0)) THEN "needs_loss"
             ELSE "needs_gain"

\* GET /dog/{dog_id}: the handler's locals
\* GetDogLocals reporting the maintenance energy whatever the profile's override
GetDogLocals_override_ignored(dog) ==
    LET factor == get_activity_factor(dog.neutered, dog.age_years,
                                      dog.target_weight_kg, dog.weight_kg)
        mer == calculate_mer(dog.weight_kg, factor)
    IN  [rer |-> calculate_rer(dog.weight_kg),
         factor |-> factor,
         mer |-> mer,
         effective_daily_kcal |-> mer]

GetDogLocals(dog) ==
    LET factor == get_activity_factor(dog.neutered, dog.age_years,
                                      dog.target_weight_kg, dog.weight_kg)
        mer == calculate_mer(dog.weight_kg, factor)
    IN  [rer |-> calculate_rer(dog.weight_kg),
         factor |-> factor,
         mer |-> mer,
         effective_daily_kcal |->
            IF Truthy(dog.target_daily_kcal) THEN dog.target_daily_kcal ELSE mer]

get_dog(dog_id) ==
    /\ request' = [op |-> "get_dog", dog_id |-> dog_id]
    /\ IF dog_id \notin DOMAIN dogs
       THEN /\ resp' = HTTPException(404, "Dog not found")
            /\ locals' = None
       ELSE LET dog == dogs[dog_id]
            IN  /\ locals' = GetDogLocals(dog)
                /\ resp' = [status_code |-> 200,
                            dog |-> dog,
                            rer |-> Round2(locals'.rer),
                            mer |-> Round2(locals'.mer),
                            effective_daily_kcal |-> Round2(locals'.effective_daily_kcal),
                            activity_factor |-> locals'.factor,
                            weight_status |->
                                get_weight_status(dog.weight_kg, dog.target_weight_kg)]
    /\ UNCHANGED <<store, clock>>

\* the value update_dog stores for one field of the update
UpdatedValue(field, value) ==
    IF field \in {"target_weight_kg", "target_daily_kcal"} /\ value = F(0)
    THEN None
    ELSE value

\* update_dog writing a weight log whenever the update carries a weight
update_dog_logging_always(dog_id, update_data) ==
    /\ request' = [op |-> "update_dog", dog_id |-> dog_id, update_data |-> update_data]
    /\ locals' = None
    /\ IF dog_id \notin DOMAIN dogs
       THEN /\ resp' = HTTPException(404, "Dog not found")
            /\ UNCHANGED <<store, clock>>
       ELSE LET dog == dogs[dog_id]
                updated == [f \in DOMAIN dog |->
                               IF f \in DOMAIN update_data
                               THEN UpdatedValue(f, update_data[f]) ELSE dog[f]]
            IN  /\ dogs' = [dogs EXCEPT ![dog_id] = updated]
                /\ IF "weight_kg" \in DOMAIN update_data
                   THEN /\ Len(weight_logs) < MaxWeightLogs
                        /\ weight_logs' = Append(weight_logs,
                              WeightLog(NextId(weight_logs), dog.id, update_data["weight_kg"],
                                        clock, "Weight updated"))
                        /\ clock' = clock + 1
                   ELSE UNCHANGED <<weight_logs, clock>>
                /\ resp' = [status_code |-> 200, dog |-> updated]
                /\ UNCHANGED <<ingredients, recipes, recipe_ingredients, plans, feeding_logs>>

\* update_data: the fields set in the request body, a function field -> value
update_dog(dog_id, update_data) ==
    /\ request' = [op |-> "update_dog", dog_id |-> dog_id, update_data |-> update_data]
    /\ locals' = None
    /\ IF dog_id \notin DOMAIN dogs
       THEN /\ resp' = HTTPException(404, "Dog not found")
            /\ UNCHANGED <<store, clock>>
       ELSE LET dog == dogs[dog_id]
                old_weight == dog.weight_kg
                updated == [f \in DOMAIN dog |->
                               IF f \in DOMAIN update_data
                               THEN UpdatedValue(f, update_data[f]) ELSE dog[f]]
            IN  /\ dogs' = [dogs EXCEPT ![dog_id] = updated]
                /\ IF "weight_kg" \in DOMAIN update_data /\ update_data["weight_kg"] # old_weight
                   THEN /\ Len(weight_logs) < MaxWeightLogs
                        /\ weight_logs' = Append(weight_logs,
                              WeightLog(NextId(weight_logs), dog.id, update_data["weight_kg"],
                                        clock, "Weight updated"))
                        /\ clock' = clock + 1
                   ELSE UNCHANGED <<weight_logs, clock>>
                /\ resp' = [status_code |-> 200, dog |-> updated]
                /\ UNCHANGED <<ingredients, recipes, recipe_ingredients, plans, feeding_logs>>

\* the id the database gives the next row of a table keyed by id
NextKey(table) ==
    IF DOMAIN table = {} THEN 1
    ELSE 1 + (CHOOSE m \in DOMAIN table : \A k \in DOMAIN table : k <= m)

\* POST /dog: the profile and its first weight log
create_dog(dog) ==
    LET db_dog == Dog(NextKey(dogs), dog.age_years, dog.neutered, dog.weight_kg,
                      dog.target_weight_kg, dog.target_daily_kcal)
    IN  /\ request' = [op |-> "create_dog", dog |-> dog]
        /\ locals' = None
        /\ Cardinality(DOMAIN dogs) < MaxDogs
        /\ Len(weight_logs) < MaxWeightLogs
        /\ dogs' = [i \in DOMAIN dogs \cup {db_dog.id} |->
                        IF i = db_dog.id THEN db_dog ELSE dogs[i]]
        /\ weight_logs' = Append(weight_logs,
              WeightLog(NextId(weight_logs), db_dog.id, dog.weight_kg, clock, "Initial weight"))
        /\ clock' = clock + 1
        /\ resp' = [status_code |-> 201, dog |-> db_dog]
        /\ UNCHANGED <<ingredients, recipes, recipe_ingredients, plans, feeding_logs>>

\* POST /log/weight
create_weight_log(log) ==
    /\ request' = [op |-> "create_weight_log", log |-> log]
    /\ locals' = None
    /\ IF log.dog_id \notin DOMAIN dogs
       THEN /\ resp' = HTTPException(404, "Dog not found")
            /\ UNCHANGED <<store, clock>>
       ELSE /\ Len(weight_logs) < MaxWeightLogs
            /\ weight_logs' = Append(weight_logs,
                  WeightLog(NextId(weight_logs), log.dog_id, log.weight_kg, clock, log.notes))
            /\ dogs' = [dogs EXCEPT ![log.dog_id].weight_kg = log.weight_kg]
            /\ clock' = clock + 1
            /\ resp' = [status_code |-> 201, log |-> weight_logs'[Len(weight_logs')]]
            /\ UNCHANGED <<ingredients, recipes, recipe_ingredients, plans, feeding_logs>>

\* DELETE /log/weight/{log_id}
delete_weight_log(log_id) ==
    /\ request' = [op |-> "delete_weight_log", log_id |-> log_id]
    /\ locals' = None
    /\ IF \A k \in 1..Len(weight_logs) : weight_logs[k].id # log_id
       THEN /\ resp' = HTTPException(404, "Weight log not found")
            /\ UNCHANGED <<store, clock>>
       ELSE /\ weight_logs' = SelectSeq(weight_logs, LAMBDA l : l.id # log_id)
            /\ resp' = [status_code |-> 204]
            /\ UNCHANGED <<dogs, ingredients, recipes, recipe_ingredients, plans,
                           feeding_logs, clock>>

(***************************************************************************)
(* Recipe endpoints (app/api/recipes.py); user is None for a request       *)
(* without a token and a one-element tuple holding the user id otherwise   *)
(***************************************************************************)
\* a table without the row of this key
WithoutKey(table, key) == [i \in DOMAIN table \ {key} |-> table[i]]

\* db.query(Recipe).filter(Recipe.id == recipe_id), narrowed to the user's own
\* and the unowned recipes `if user`; TRUE when .first() finds a row
QueryRecipe(recipe_id, user) ==
    /\ recipe_id \in DOMAIN recipes
    /\ user # None => recipes[recipe_id].user_id \in {user, None}

_recipe_to_response(recipe, entries) ==
    [id |-> recipe.id,
     meals_per_day |-> recipe.meals_per_day,
     ingredients |-> MapSeq(RecipeEntries(entries, recipe.id), LAMBDA ri :
        [ingredient_id |-> ri.ingredient_id,
         ingredient_name |-> ingredients[ri.ingredient_id].name,
         percentage |-> ri.percentage])]

create_recipe(recipe, user) ==
    LET db_recipe == [Recipe(NextKey(recipes), recipe.meals_per_day) EXCEPT !.user_id = user]
    IN  /\ request' = [op |-> "create_recipe", recipe |-> recipe, user |-> user]
        /\ locals' = None
        /\ Cardinality(DOMAIN recipes) < MaxRecipes
        /\ recipes' = [i \in DOMAIN recipes \cup {db_recipe.id} |->
                          IF i = db_recipe.id THEN db_recipe ELSE recipes[i]]
        /\ resp' = [status_code |-> 201, recipe |-> _recipe_to_response(db_recipe, recipe_ingredients)]
        /\ UNCHANGED <<dogs, ingredients, recipe_ingredients, plans, weight_logs,
                       feeding_logs, clock>>

get_recipe(recipe_id, user) ==
    /\ request' = [op |-> "get_recipe", recipe_id |-> recipe_id, user |-> user]
    /\ locals' = None
    /\ resp' = IF ~QueryRecipe(recipe_id, user)
               THEN HTTPException(404, "Recipe not found")
               ELSE [status_code |-> 200,
                     recipe |-> _recipe_to_response(recipes[recipe_id], recipe_ingredients)]
    /\ UNCHANGED <<store, clock>>

\* add_ingredient_to_recipe always adding a row
add_ingredient_to_recipe_duplicating(recipe_id, data, user) ==
    /\ request' = [op |-> "add_ingredient_to_recipe", recipe_id |-> recipe_id,
                   data |-> data, user |-> user]
    /\ locals' = None
    /\ IF ~QueryRecipe(recipe_id, user)
       THEN /\ resp' = HTTPException(404, "Recipe not found")
            /\ UNCHANGED <<store, clock>>
       ELSE IF data.ingredient_id \notin DOMAIN ingredients
       THEN /\ resp' = HTTPException(404, "Ingredient not found")
            /\ UNCHANGED <<store, clock>>
       ELSE /\ Len(RecipeEntries(recipe_ingredients, recipe_id)) < MaxEntries
            /\ recipe_ingredients' = Append(recipe_ingredients,
                    RecipeIngredient(recipe_id, data.ingredient_id, data.percentage))
            /\ resp' = [status_code |-> 200,
                        recipe |-> _recipe_to_response(recipes[recipe_id], recipe_ingredients')]
            /\ UNCHANGED <<dogs, ingredients, recipes, plans, weight_logs, feeding_logs, clock>>

\* `existing` is the first row of the recipe with the ingredient
add_ingredient_to_recipe(recipe_id, data, user) ==
    /\ request' = [op |-> "add_ingredient_to_recipe", recipe_id |-> recipe_id,
                   data |-> data, user |-> user]
    /\ locals' = None
    /\ IF ~QueryRecipe(recipe_id, user)
       THEN /\ resp' = HTTPException(404, "Recipe not found")
            /\ UNCHANGED <<store, clock>>
       ELSE IF data.ingredient_id \notin DOMAIN ingredients
       THEN /\ resp' = HTTPException(404, "Ingredient not found")
            /\ UNCHANGED <<store, clock>>
       ELSE LET hits == {k \in 1..Len(recipe_ingredients) :
                            /\ recipe_ingredients[k].recipe_id = recipe_id
                            /\ recipe_ingredients[k].ingredient_id = data.ingredient_id}
            IN  /\ IF hits # {}
                   THEN LET existing == CHOOSE k \in hits : \A j \in hits : k <= j
                        IN  recipe_ingredients' =
                                [recipe_ingredients EXCEPT ![existing].percentage = data.percentage]
                   ELSE /\ Len(RecipeEntries(recipe_ingredients, recipe_id)) < MaxEntries
                        /\ recipe_ingredients' = Append(recipe_ingredients,
                                RecipeIngredient(recipe_id, data.ingredient_id, data.percentage))
                /\ resp' = [status_code |-> 200,
                            recipe |-> _recipe_to_response(recipes[recipe_id], recipe_ingredients')]
                /\ UNCHANGED <<dogs, ingredients, recipes, plans, weight_logs, feeding_logs, clock>>

remove_ingredient_from_recipe(recipe_id, ingredient_id, user) ==
    /\ request' = [op |-> "remove_ingredient_from_recipe", recipe_id |-> recipe_id,
                   ingredient_id |-> ingredient_id, user |-> user]
    /\ locals' = None
    /\ IF ~QueryRecipe(recipe_id, user)
       THEN /\ resp' = HTTPException(404, "Recipe not found")
            /\ UNCHANGED <<store, clock>>
       ELSE LET hits == {k \in 1..Len(recipe_ingredients) :
                            /\ recipe_ingredients[k].recipe_id = recipe_id
                            /\ recipe_ingredients[k].ingredient_id = ingredient_id}
            IN  /\ IF hits # {}
                   THEN LET recipe_ingredient == CHOOSE k \in hits : \A j \in hits : k <= j
                        IN  recipe_ingredients' =
                                SubSeq(recipe_ingredients, 1, recipe_ingredient - 1)
                                \o SubSeq(recipe_ingredients, recipe_ingredient + 1,
                                          Len(recipe_ingredients))
                   ELSE UNCHANGED recipe_ingredients
                /\ resp' = [status_code |-> 200,
                            recipe |-> _recipe_to_response(recipes[recipe_id], recipe_ingredients')]
                /\ UNCHANGED <<dogs, ingredients, recipes, plans, weight_logs, feeding_logs, clock>>

list_recipes(user) ==
    /\ request' = [op |-> "list_recipes", user |-> user]
    /\ locals' = None
    /\ resp' = [status_code |-> 200,
                recipes |-> { i \in DOMAIN recipes :
                                IF user # None THEN recipes[i].user_id \in {user, None}
                                ELSE recipes[i].user_id = None }]
    /\ UNCHANGED <<store, clock>>

update_recipe(recipe_id, update_data, user) ==
    /\ request' = [op |-> "update_recipe", recipe_id |-> recipe_id,
                   update_data |-> update_data, user |-> user]
    /\ locals' = None
    /\ IF ~QueryRecipe(recipe_id, user)
       THEN /\ resp' = HTTPException(404, "Recipe not found")
            /\ UNCHANGED <<store, clock>>
       ELSE LET recipe == [f \in DOMAIN recipes[recipe_id] |->
                              IF f \in DOMAIN update_data THEN update_data[f]
                              ELSE recipes[recipe_id][f]]
            IN  /\ recipes' = [recipes EXCEPT ![recipe_id] = recipe]
                /\ resp' = [status_code |-> 200,
                            recipe |-> _recipe_to_response(recipe, recipe_ingredients)]
                /\ UNCHANGED <<dogs, ingredients, recipe_ingredients, plans, weight_logs,
                               feeding_logs, clock>>

\* deleting a recipe that feeding plans refer to sets their recipe_id to NULL
\* at the flush, which the NOT NULL column refuses: the request fails and the
\* transaction is rolled back
delete_recipe(recipe_id, user) ==
    /\ request' = [op |-> "delete_recipe", recipe_id |-> recipe_id, user |-> user]
    /\ locals' = None
    /\ IF ~QueryRecipe(recipe_id, user)
       THEN /\ resp' = HTTPException(404, "Recipe not found")
            /\ UNCHANGED <<store, clock>>
       ELSE IF \E k \in 1..Len(plans) : plans[k].recipe_id = recipe_id
       THEN /\ resp' = HTTPException(500, "Internal Server Error")
            /\ UNCHANGED <<store, clock>>
       ELSE /\ recipe_ingredients' =
                    SelectSeq(recipe_ingredients, LAMBDA ri : ri.recipe_id # recipe_id)
            /\ recipes' = WithoutKey(recipes, recipe_id)
            /\ resp' = [status_code |-> 204]
            /\ UNCHANGED <<dogs, ingredients, plans, weight_logs, feeding_logs, clock>>

(***************************************************************************)
(* DELETE /dog/{dog_id} and DELETE /ingredient/{ingredient_id}             *)
(***************************************************************************)
\* a dog that feeding plans refer to cannot be deleted either (dog_id is NOT
\* NULL); the weight and feeding logs of a deleted dog stay as they are
delete_dog(dog_id) ==
    /\ request' = [op |-> "delete_dog", dog_id |-> dog_id]
    /\ locals' = None
    /\ IF dog_id \notin DOMAIN dogs
       THEN /\ resp' = HTTPException(404, "Dog not found")
            /\ UNCHANGED <<store, clock>>
       ELSE IF \E k \in 1..Len(plans) : plans[k].dog_id = dog_id
       THEN /\ resp' = HTTPException(500, "Internal Server Error")
            /\ UNCHANGED <<store, clock>>
       ELSE /\ dogs' = WithoutKey(dogs, dog_id)
            /\ resp' = [status_code |-> 204]
            /\ UNCHANGED <<ingredients, recipes, recipe_ingredients, plans, weight_logs,
                           feeding_logs, clock>>

\* delete_ingredient without the check for recipes using the ingredient
delete_ingredient_unchecked(ingredient_id) ==
    /\ request' = [op |-> "delete_ingredient", ingredient_id |-> ingredient_id]
    /\ locals' = None
    /\ IF ingredient_id \notin DOMAIN ingredients
       THEN /\ resp' = HTTPException(404, "Ingredient not found")
            /\ UNCHANGED <<store, clock>>
       ELSE /\ ingredients' = WithoutKey(ingredients, ingredient_id)
            /\ resp' = [status_code |-> 204]
            /\ UNCHANGED <<dogs, recipes, recipe_ingredients, plans, weight_logs,
                           feeding_logs, clock>>

delete_ingredient(ingredient_id) ==
    /\ request' = [op |-> "delete_ingredient", ingredient_id |-> ingredient_id]
    /\ locals' = None
    /\ IF ingredient_id \notin DOMAIN ingredients
       THEN /\ resp' = HTTPException(404, "Ingredient not found")
            /\ UNCHANGED <<store, clock>>
       ELSE IF \E k \in 1..Len(recipe_ingredients) :
                    recipe_ingredients[k].ingredient_id = ingredient_id
       THEN /\ resp' = HTTPException(400, "Cannot delete ingredient that is used in recipes")
            /\ UNCHANGED <<store, clock>>
       ELSE /\ ingredients' = WithoutKey(ingredients, ingredient_id)
            /\ resp' = [status_code |-> 204]
            /\ UNCHANGED <<dogs, recipes, recipe_ingredients, plans, weight_logs,
                           feeding_logs, clock>>

\* POST /log/feeding; recipe_id is None or a one-element tuple holding the id
create_feeding_log(log) ==
    /\ request' = [op |-> "create_feeding_log", log |-> log]
    /\ locals' = None
    /\ IF log.dog_id \notin DOMAIN dogs
       THEN /\ resp' = HTTPException(404, "Dog not found")
            /\ UNCHANGED <<store, clock>>
       ELSE IF log.recipe_id # None /\ log.recipe_id[1] # 0
               /\ log.recipe_id[1] \notin DOMAIN recipes
       THEN /\ resp' = HTTPException(404, "Recipe not found")
            /\ UNCHANGED <<store, clock>>
       ELSE /\ Len(feeding_logs) < MaxFeedingLogs
            /\ feeding_logs' = Append(feeding_logs,
                  FeedingLog(NextId(feeding_logs), log.dog_id, log.recipe_id, log.kcal_fed, clock))
            /\ clock' = clock + 1
            /\ resp' = [status_code |-> 201, log |-> feeding_logs'[Len(feeding_logs')]]
            /\ UNCHANGED <<dogs, ingredients, recipes, recipe_ingredients, plans, weight_logs>>

\* datetime.utcnow().replace(hour=0, minute=0, second=0, microsecond=0)
today_start == (clock \div TicksPerDay) * TicksPerDay

\* GET /log/summary/today/{dog_id}: the handler's locals
DailySummaryLocals(dog) ==
    LET todays == SelectSeq(feeding_logs, LAMBDA l :
                      l.dog_id = dog.id /\ l.logged_at >= today_start)
        total_kcal_fed == RSum(MapSeq(todays, LAMBDA l : l.kcal_fed))
        target_kcal ==
            IF Truthy(dog.target_daily_kcal) THEN dog.target_daily_kcal
            ELSE calculate_mer(dog.weight_kg,
                               get_activity_factor(dog.neutered, dog.age_years,
                                                   dog.target_weight_kg, dog.weight_kg))
    IN  [total_kcal_fed |-> total_kcal_fed,
         meals_logged |-> Len(todays),
         target_kcal |-> target_kcal,
         remaining_kcal |-> RMax(F(0), RSub(target_kcal, total_kcal_fed))]

get_daily_summary(dog_id) ==
    /\ request' = [op |-> "get_daily_summary", dog_id |-> dog_id]
    /\ IF dog_id \notin DOMAIN dogs
       THEN /\ resp' = HTTPException(404, "Dog not found")
            /\ locals' = None
       ELSE /\ locals' = DailySummaryLocals(dogs[dog_id])
            /\ resp' = [status_code |-> 200,
                        date |-> today_start,
                        dog_id |-> dog_id,
                        target_kcal |-> Round2(locals'.target_kcal),
                        total_kcal_fed |-> Round2(locals'.total_kcal_fed),
                        remaining_kcal |-> Round2(locals'.remaining_kcal),
                        meals_logged |-> locals'.meals_logged,
                        on_track |-> RLe(locals'.total_kcal_fed,
                                         RMul(locals'.target_kcal, Rat(11, 10)))]
    /\ UNCHANGED <<store, clock>>

\* a day passes between two requests
NextDay ==
    /\ clock + TicksPerDay <= MaxClock
    /\ clock' = clock + TicksPerDay
    /\ UNCHANGED <<store, request, resp, locals>>

\* the requests of a profile session
ProfileDogIds == {1, 2, 3}

\* the dogs updated, fed and planned for
UpdatedDogIds == {2, 3}

ProfileUpdates ==
    { [target_daily_kcal |-> F(0)],
      [target_daily_kcal |-> Rat(1201, 8)],
      [target_weight_kg |-> F(0), neutered |-> TRUE],
      [weight_kg |-> F(16)] }

ProfileFeedings ==
    { [dog_id |-> d, recipe_id |-> r, kcal_fed |-> F(500)] :
        d \in UpdatedDogIds, r \in {None, <<8>>} }

(***************************************************************************)
(* Direct calls of the calculation engine (tests/test_calculations.py)     *)
(***************************************************************************)
CalcTargets == {F(0), F(50), Rat(801, 8), F(600), F(896)}

CalcKibble == {F(0), F(200), F(400), F(896)}

CalcTreats == {F(0), F(50), F(300), Rat(401, 8)}

CallHomemadeKcal ==
    \E target \in CalcTargets, k \in CalcKibble, t \in CalcTreats :
        /\ request' = [op |-> "calculate_homemade_kcal",
                       target_kcal |-> target, kibble_kcal |-> k, treats_kcal |-> t]
        /\ resp' = calculate_homemade_kcal(target, k, t)
        /\ UNCHANGED <<store, clock, locals>>

CalcAges == {Rat(1, 5), Rat(1, 3), Rat(1, 2), F(1), F(3)}

CalcWeights == {None, F(10), F(16), F(20)}

CallActivityFactor ==
    \E neutered \in BOOLEAN, age \in CalcAges, tw \in CalcWeights, cw \in CalcWeights :
        /\ request' = [op |-> "get_activity_factor", neutered |-> neutered, age_years |-> age,
                       target_weight_kg |-> tw, current_weight_kg |-> cw]
        /\ resp' = get_activity_factor(neutered, age, tw, cw)
        /\ UNCHANGED <<store, clock, locals>>

\* an entry of the list given to aggregate_nutrients: grams of a seeded ingredient
AggregateEntry(grams, ingredient_id) ==
    [grams |-> grams, per100 |-> SeedIngredients[ingredient_id].per100]

CalcIngredientLists ==
    { <<>>,
      <<AggregateEntry(F(100), 1)>>,
      <<AggregateEntry(F(50), 1), AggregateEntry(Rat(25, 2), 2)>>,
      <<AggregateEntry(F(200), 3), AggregateEntry(F(30), 4), AggregateEntry(F(1), 8)>> }

CalcScales == {F(0), Rat(1, 2), F(2), F(3)}

Reverse(s) == [i \in 1..Len(s) |-> s[Len(s) + 1 - i]]

\* the list with every grams value multiplied by k
ScaleGrams(ings, k) ==
    MapSeq(ings, LAMBDA ing : [grams |-> RMul(k, ing.grams), per100 |-> ing.per100])

\* aggregate_nutrients called on two lists, their concatenations in both orders,
\* the reversed concatenation and the first list scaled by k
CallAggregate ==
    \E a \in CalcIngredientLists, b \in CalcIngredientLists, k \in CalcScales :
        /\ request' = [op |-> "aggregate_nutrients", a |-> a, b |-> b, k |-> k]
        /\ locals' = [a |-> aggregate_nutrients(a),
                      b |-> aggregate_nutrients(b),
                      joined |-> aggregate_nutrients(a \o b),
                      swapped |-> aggregate_nutrients(b \o a),
                      reversed |-> aggregate_nutrients(Reverse(a \o b)),
                      scaled |-> aggregate_nutrients(ScaleGrams(a, k))]
        /\ resp' = locals'.joined
        /\ UNCHANGED <<store, clock>>

CalcAmounts == {F(0), F(1000), F(1100), Rat(124999, 100), F(1250), F(1500), F(6250), F(7000)}

CalcMinimums == {F(0), F(1250)}

CalcMaximums == {None, F(0), F(1000), F(6250)}

CallCheckAafco ==
    \E amount \in CalcAmounts, min \in CalcMinimums, max \in CalcMaximums :
        /\ request' = [op |-> "check_aafco_compliance", nutrient |-> "calcium",
                       amount_per_1000kcal |-> amount,
                       min_per_1000kcal |-> min, max_per_1000kcal |-> max]
        /\ resp' = check_aafco_compliance("calcium", amount, min, max)
        /\ UNCHANGED <<store, clock, locals>>

CalcCalcium ==
    {F(0), F(900), F(999), Rat(9981, 10), F(1000), F(1099), F(1100), F(1500),
     F(2000), F(2001)}

CalcPhosphorus == {F(-5), F(0), F(1000), Rat(12345, 10)}

CallAnalyzeCaP ==
    \E calcium \in CalcCalcium, phosphorus \in CalcPhosphorus :
        /\ request' = [op |-> "analyze_ca_p_ratio",
                       total_calcium_mg |-> calcium, total_phosphorus_mg |-> phosphorus]
        /\ resp' = analyze_ca_p_ratio(calcium, phosphorus)
        /\ UNCHANGED <<store, clock, locals>>

(***************************************************************************)
(* Specifications                                                          *)
(***************************************************************************)
\* a session: any sequence of requests against the store
SeqComputeRequests ==
    PlanComputeRequests(SeqDogIds, SeqRecipeIds, SeqKibble, SeqTreats, SeqNumDays)

Compute == ComputeOver(SeqComputeRequests)

SeqSimulateRequests ==
    HybridSimulateRequests(SeqSimDogIds, SeqSimRecipeIds, SeqAdjustments, {None})

Simulate == SimulateOver(SeqSimulateRequests)

Next == Compute \/ Simulate

Spec == Init /\ [][Next]_vars

\* a profile session: profile updates, feedings and days, and the three readers of the
\* daily target
UpdateDog == \E d \in UpdatedDogIds, u \in ProfileUpdates : update_dog(d, u)

GetDog == \E d \in ProfileDogIds : get_dog(d)

CreateFeedingLog == \E l \in ProfileFeedings : create_feeding_log(l)

GetDailySummary == \E d \in ProfileDogIds : get_daily_summary(d)

ProfileComputeRequests == PlanComputeRequests({2}, {1}, {F(0)}, {F(0)}, {1})

ComputeProfile == ComputeOver(ProfileComputeRequests)

NextProfile ==
    UpdateDog \/ GetDog \/ CreateFeedingLog \/ GetDailySummary \/ NextDay \/ ComputeProfile

SpecProfile == Init /\ [][NextProfile]_vars

(***************************************************************************)
(* Weight history: POST /dog, PUT /dog/{id}, POST /log/weight and          *)
(* DELETE /log/weight/{id} in any order                                    *)
(***************************************************************************)
DogCreates ==
    { [age_years |-> F(3), neutered |-> TRUE, weight_kg |-> F(81),
       target_weight_kg |-> None, target_daily_kcal |-> None] }

WeightUpdates ==
    { [weight_kg |-> F(1)], [weight_kg |-> F(12)], [neutered |-> TRUE] }

WeightLogCreates ==
    { [dog_id |-> d, weight_kg |-> w, notes |-> "vet"] : d \in {2, 3, 4}, w \in {F(1), F(14)} }

WeightLogIds == {1, 2, 3, 4}

CreateDog == clock < MaxClock /\ \E dog \in DogCreates : create_dog(dog)

UpdateDogWeight ==
    clock < MaxClock /\ \E d \in {2, 3, 4}, u \in WeightUpdates : update_dog(d, u)

CreateWeightLog == clock < MaxClock /\ \E log \in WeightLogCreates : create_weight_log(log)

DeleteWeightLog == \E log_id \in WeightLogIds : delete_weight_log(log_id)

NextWeights == CreateDog \/ UpdateDogWeight \/ CreateWeightLog \/ DeleteWeightLog

SpecWeights == Init /\ [][NextWeights]_vars

(***************************************************************************)
(* Stored plans: compute, update and delete in any order                   *)
(***************************************************************************)
StoredComputeRequests ==
    PlanComputeRequests({1, 2}, {1}, {F(0)}, {Rat(401, 8)}, {1})

PlanUpdates ==
    { [kibble_kcal |-> F(850)], [kibble_kcal |-> F(0), treats_kcal |-> F(50)],
      [kibble_kcal |-> None] }

PlanIds == {1, 2, 3}

ComputeStored ==
    /\ NextId(plans) <= MaxPlanId
    /\ \E req \in StoredComputeRequests : compute_feeding_plan_upto(req, MaxStoredPlans)

UpdatePlan == \E plan_id \in PlanIds, u \in PlanUpdates : update_feeding_plan(plan_id, u)

DeletePlan == \E plan_id \in PlanIds : delete_feeding_plan(plan_id)

NextPlans == ComputeStored \/ UpdatePlan \/ DeletePlan

SpecPlans == Init /\ [][NextPlans]_vars

(***************************************************************************)
(* Dogs, recipes, ingredients and plans created and deleted in any order   *)
(***************************************************************************)
StoreDogIds == {2, 3}

StoreRecipeIds == {1, 7, 12}

StoreIngredientIds == {7, 99}

StoreAdds == { [ingredient_id |-> 7, percentage |-> F(50)] }

DeleteDog == \E dog_id \in StoreDogIds : delete_dog(dog_id)

DeleteRecipe == \E recipe_id \in StoreRecipeIds : delete_recipe(recipe_id, None)

DeleteIngredient == \E ingredient_id \in StoreIngredientIds : delete_ingredient(ingredient_id)

AddIngredient == \E data \in StoreAdds : add_ingredient_to_recipe(7, data, None)

RemoveIngredient == remove_ingredient_from_recipe(7, 7, None)

ComputeStore ==
    /\ NextId(plans) <= MaxPlanId
    /\ \E req \in ProfileComputeRequests : compute_feeding_plan_upto(req, MaxStoredPlans)

NextStore ==
    \/ DeleteDog \/ DeleteRecipe \/ DeleteIngredient
    \/ AddIngredient \/ RemoveIngredient \/ ComputeStore \/ DeletePlan

SpecStore == Init /\ [][NextStore]_vars

(***************************************************************************)
(* Recipes of several users: every recipe endpoint called with and without *)
(* a token                                                                 *)
(***************************************************************************)
RecipeCallers == {None, <<"alice">>, <<"bob">>}

RecipeOwners == { <<"alice">> }

RecipeCreates == { [meals_per_day |-> 2] }

RecipeUpdates == { [meals_per_day |-> 3] }

\* a recipe created without a token, the id of the next recipe and an unknown id
CalledRecipeIds == {7, 10, 12}

RecipeAdds ==
    { [ingredient_id |-> 1, percentage |-> F(10)], [ingredient_id |-> 7, percentage |-> F(20)],
      [ingredient_id |-> 99, percentage |-> F(10)] }

RemovedIngredientIds == {1}

CreateRecipe == \E recipe \in RecipeCreates, user \in RecipeOwners : create_recipe(recipe, user)

GetRecipe == \E recipe_id \in CalledRecipeIds, user \in RecipeCallers : get_recipe(recipe_id, user)

AddToRecipe ==
    \E recipe_id \in CalledRecipeIds, data \in RecipeAdds, user \in RecipeCallers :
        add_ingredient_to_recipe(recipe_id, data, user)

RemoveFromRecipe ==
    \E recipe_id \in CalledRecipeIds, ingredient_id \in RemovedIngredientIds,
       user \in RecipeCallers :
        remove_ingredient_from_recipe(recipe_id, ingredient_id, user)

ListRecipes == \E user \in RecipeCallers : list_recipes(user)

UpdateRecipe ==
    \E recipe_id \in CalledRecipeIds, u \in RecipeUpdates, user \in RecipeCallers :
        update_recipe(recipe_id, u, user)

DeleteCalledRecipe ==
    \E recipe_id \in CalledRecipeIds, user \in RecipeCallers : delete_recipe(recipe_id, user)

NextRecipes ==
    \/ CreateRecipe \/ GetRecipe \/ AddToRecipe \/ RemoveFromRecipe
    \/ ListRecipes \/ UpdateRecipe \/ DeleteCalledRecipe

SpecRecipes == Init /\ [][NextRecipes]_vars

\* one call: a single request, or a single engine call, against the seeded store
CallComputeRequests ==
    PlanComputeRequests(ReqDogIds, ReqRecipeIds, CallKibble, CallTreats, CallNumDays)
        \cup PlanComputeRequests({1, 2}, {9}, {F(0)}, {F(0)}, {1})

ComputeCall == request = NoRequest /\ ComputeOver(CallComputeRequests)

HomemadeKcalCall == request = NoRequest /\ CallHomemadeKcal

ActivityFactorCall == request = NoRequest /\ CallActivityFactor

\* labels whose components sum to more than 100, and to just under and just over 60
CallKibbleEdgeLabels ==
    { <<KibbleInput(F(40), F(30), F(10), F(12), F(10), None, F(1), F(50))>>,
      <<KibbleInput(Rat(25996, 1000), F(16), F(4), F(10), F(4), F(0), None, F(100))>>,
      <<KibbleInput(Rat(2599, 100), F(16), F(4), F(10), F(4), Rat(12, 10), F(1), F(100))>> }

CallSimulateRequests ==
    HybridSimulateRequests(ReqDogIds, ReqRecipeIds, CallAdjustments, CallKibbleLabels)
        \cup HybridSimulateRequests({1}, {7}, {<<>>}, CallKibbleEdgeLabels)
        \cup HybridSimulateRequests(ReqDogIds, {1, 3, 6}, {CallStoredAdjustments}, {None})

SimulateCall == request = NoRequest /\ SimulateOver(CallSimulateRequests)

AggregateCall == request = NoRequest /\ CallAggregate

CheckAafcoCall == request = NoRequest /\ CallCheckAafco

AnalyzeCaPCall == request = NoRequest /\ CallAnalyzeCaP

NextCall ==
    \/ ComputeCall \/ SimulateCall \/ HomemadeKcalCall \/ ActivityFactorCall
    \/ AggregateCall \/ CheckAafcoCall \/ AnalyzeCaPCall

SpecCall == Init /\ [][NextCall]_vars

(***************************************************************************)
(* Properties                                                              *)
(***************************************************************************)
IsCompute == request.op = "compute"

ComputeOk == IsCompute /\ resp.status_code = 200

C2_ActivityFactorLadder ==
    request.op = "get_activity_factor" =>
        LET age == request.age_years
            tw == request.target_weight_kg
            cw == request.current_weight_kg
            both == tw # None /\ cw # None
        IN  /\ RLt(age, Rat(1, 3)) => resp = F(3)
            /\ (RGe(age, Rat(1, 3)) /\ RLt(age, F(1))) => resp = F(2)
            /\ (RGe(age, F(1)) /\ both /\ RLt(tw, cw)) => resp = Rat(11, 10)
            /\ (RGe(age, F(1)) /\ both /\ RGt(tw, cw)) => resp = Rat(18, 10)
            /\ (RGe(age, F(1)) /\ (~both \/ tw = cw))
                  => resp = (IF request.neutered THEN Rat(16, 10) ELSE Rat(18, 10))

\* C2 witness: a neutered adult with a lower target weight gets the weight-loss factor
C2_Witness_GoalBeatsNeuter ==
    /\ request.op = "get_activity_factor"
    /\ request.neutered
    /\ RGe(request.age_years, F(1))
    /\ request.target_weight_kg # None /\ request.current_weight_kg # None
    /\ RLt(request.target_weight_kg, request.current_weight_kg)
    /\ resp = Rat(11, 10)

\* the entries stored for the recipe a request names, and the sum of their percentages
RequestEntries == RecipeEntries(recipe_ingredients, request.recipe_id)

RequestPercentageSum == RSum(MapSeq(RequestEntries, LAMBDA ri : ri.percentage))

\* the sum of the stored percentages of the request's recipe entries of type FOOD
RequestFoodSum ==
    RSum(MapSeq(SelectSeq(RequestEntries, LAMBDA ri :
                    ingredients[ri.ingredient_id].ingredient_type \in {FOOD, NullType}),
                LAMBDA ri : ri.percentage))

InBand(x) == RGe(x, F(99)) /\ RLe(x, F(101))

\* the request passes every check made before the portions are computed
PassesChecks ==
    /\ request.dog_id \in DOMAIN dogs
    /\ request.recipe_id \in DOMAIN recipes
    /\ RequestEntries # <<>>
    /\ InBand(RequestPercentageSum)

\* C3: compute reports errors in this order: unresolved dog id -> 404;
\* otherwise unresolved recipe id -> 404; otherwise a recipe without entries
\* -> 400 (no ingredients); otherwise a sum of the entries' percentages below
\* 99 or above 101 -> 400; in every other case the call succeeds.
C3_ComputeErrorOrder ==
    IsCompute =>
        IF request.dog_id \notin DOMAIN dogs
        THEN resp = [status_code |-> 404, detail |-> "Dog not found"]
        ELSE IF request.recipe_id \notin DOMAIN recipes
        THEN resp = [status_code |-> 404, detail |-> "Recipe not found"]
        ELSE IF RequestEntries = <<>>
        THEN resp = [status_code |-> 400, detail |-> "Recipe has no ingredients"]
        ELSE IF RLt(RequestPercentageSum, F(99)) \/ RGt(RequestPercentageSum, F(101))
        THEN resp = [status_code |-> 400, detail |-> "Recipe percentages must sum to 100%"]
        ELSE resp.status_code = 200

\* C3 witness: dog and recipe resolve, the recipe has entries, their sum is
\* outside [99, 101] and the call is refused with 400
C3_Witness_SumRefused ==
    /\ IsCompute
    /\ request.dog_id \in DOMAIN dogs
    /\ request.recipe_id \in DOMAIN recipes
    /\ RequestEntries # <<>>
    /\ ~InBand(RequestPercentageSum)
    /\ resp.status_code = 400
    /\ resp.detail = "Recipe percentages must sum to 100%"

C5_SimulateChangesNothing ==
    [][request'.op = "simulate" =>
         /\ UNCHANGED store
         /\ resp'.status_code = 200 =>
               resp'.before =
                   [c \in Channels |-> Round2(aggregate_nutrients(
                       MapSeq(RecipeEntries(recipe_ingredients, request'.recipe_id),
                              LAMBDA ri : [grams |-> RMul(ri.percentage, F(10)),
                                           per100 |-> ingredients[ri.ingredient_id].per100]))[c])]
    ]_vars

\* C5 witness: a simulate call with an override returned an "after" vector
\* that differs from "before", with plans already stored
C5_Witness_OverrideApplied ==
    /\ request.op = "simulate"
    /\ resp.status_code = 200
    /\ request.ingredient_adjustments # <<>>
    /\ resp.after.fresh # resp.before
    /\ plans # <<>>

\* the stored FOOD entries of the request's recipe, in recipe order
RequestFoodEntries ==
    SelectSeq(RequestEntries, LAMBDA ri :
        ingredients[ri.ingredient_id].ingredient_type \in {FOOD, NullType})

\* C6: only FOOD entries count toward the 100% constraint of compute: a
\* recipe whose FOOD percentages sum to a value within [99, 101] is accepted
\* whatever percentages its OIL, SUPPLEMENT and TREAT entries carry.
C6_FoodOnlyConstraint ==
    (/\ IsCompute
     /\ request.dog_id \in DOMAIN dogs
     /\ request.recipe_id \in DOMAIN recipes
     /\ RequestFoodEntries # <<>>
     /\ InBand(RequestFoodSum))
        => resp.status_code = 200

\* C7: in the portion computation, when the FOOD percentages sum to S outside
\* [99, 101] every FOOD percentage p is replaced by p / S * 100, so that the
\* percentages used for the portions sum to 100 and keep their pairwise
\* proportions, and the call succeeds; when S is within [99, 101] the stored
\* percentages are used unchanged.
C7_FoodRenormalised ==
    (IsCompute /\ PassesChecks) =>
        /\ resp.status_code = 200
        /\ LET stored == RequestFoodEntries
               used == locals.food_ingredients
               S == RequestFoodSum
               n == Len(stored)
           IN  /\ Len(used) = n
               /\ Len(resp.batch_ingredients) = n
               /\ \A i \in 1..n :
                     /\ used[i].ingredient_id = stored[i].ingredient_id
                     /\ used[i].percentage =
                           (IF InBand(S) THEN stored[i].percentage
                            ELSE RMul(RDiv(stored[i].percentage, S), F(100)))
                     /\ resp.batch_ingredients[i].grams_per_day =
                           Round2(RMul(locals.total_grams_per_day,
                                       RDiv(used[i].percentage, F(100))))
               /\ (n > 0 /\ ~InBand(S)) =>
                     /\ RSum(MapSeq(used, LAMBDA d : d.percentage)) = F(100)
                     /\ \A i, j \in 1..n :
                           RMul(used[i].percentage, stored[j].percentage)
                              = RMul(used[j].percentage, stored[i].percentage)

\* C7 witness: a plan was computed from FOOD percentages summing outside
\* [99, 101], rescaled to sum to 100
C7_Witness_Rescaled ==
    /\ ComputeOk
    /\ RequestFoodEntries # <<>>
    /\ ~InBand(RequestFoodSum)
    /\ RSum(MapSeq(locals.food_ingredients, LAMBDA d : d.percentage)) = F(100)
    /\ locals.food_ingredients[1].percentage # RequestFoodEntries[1].percentage

\* C8 as claimed: total grams per day = food budget / weighted average * 100
\* whenever the average is > 0, and 0 when it is 0; a negative food budget
\* makes total grams per day and every FOOD entry's grams per day negative.
C8_NegativeGramsPropagate ==
    ComputeOk =>
        LET avg == locals.weighted_avg_kcal_per_100g
            budget == locals.actual_batch_kcal
        IN  /\ RGt(avg, F(0)) =>
                  locals.total_grams_per_day = RMul(RDiv(budget, avg), F(100))
            /\ avg = F(0) => locals.total_grams_per_day = F(0)
            /\ (RGt(avg, F(0)) /\ RLt(budget, F(0))) =>
                  /\ RLt(locals.total_grams_per_day, F(0))
                  /\ \A i \in 1..Len(locals.food_figures) :
                        RLt(locals.food_figures[i].grams_per_day, F(0))

\* C8 amended: total grams per day = food budget / weighted average * 100
\* when the average is > 0 and the food budget is > 0, and 0 otherwise; when
\* oil plus supplement kcal reach or exceed the homemade budget the food
\* budget is <= 0 and total grams per day and every FOOD entry's grams per
\* day are 0, never negative; the food budget itself is reported unclamped.
C8_GramsClampedAtZero ==
    ComputeOk =>
        LET avg == locals.weighted_avg_kcal_per_100g
            budget == locals.actual_batch_kcal
        IN  /\ budget = RSub(RSub(locals.homemade_kcal, locals.oils_kcal_per_day),
                             locals.supplements_kcal_per_day)
            /\ locals.total_grams_per_day =
                  (IF RGt(avg, F(0)) /\ RGt(budget, F(0))
                   THEN RMul(RDiv(budget, avg), F(100)) ELSE F(0))
            /\ RGe(locals.total_grams_per_day, F(0))
            /\ \A i \in 1..Len(resp.batch_ingredients) :
                  /\ RGe(resp.batch_ingredients[i].grams_per_day, F(0))
                  /\ RLe(budget, F(0)) => resp.batch_ingredients[i].grams_per_day = F(0)
            /\ resp.calorie_budget.homemade_food_kcal = Round2(budget)

\* C8 witness: oil and supplement kcal exceed the homemade budget of a recipe
\* with a positive weighted average, and the plan reports 0 grams
C8_Witness_NegativeBudget ==
    /\ ComputeOk
    /\ RGt(locals.weighted_avg_kcal_per_100g, F(0))
    /\ RLt(locals.actual_batch_kcal, F(0))
    /\ RLt(resp.calorie_budget.homemade_food_kcal, F(0))
    /\ locals.total_grams_per_day = F(0)
    /\ resp.batch_ingredients # <<>>

\* C9: the oil and supplement kcal deducted from the homemade budget, as
\* reported in the calorie budget, equal the sums of kcal_per_day over the
\* oil and supplement portions of the same response (up to the rounding of
\* the figures to 2 decimals), for every meals-per-day value.
C9_DeductionsMatchPortions ==
    ComputeOk =>
      LET Within(x, y, tol) == RLe(RSub(x, y), tol) /\ RLe(RSub(y, x), tol)
      IN
        /\ Within(resp.calorie_budget.oils_kcal,
                  RSum(MapSeq(resp.oils, LAMBDA p : p.kcal_per_day)),
                  Rat(Len(resp.oils) + 1, 200))
        /\ Within(resp.calorie_budget.supplements_kcal,
                  RSum(MapSeq(resp.supplements, LAMBDA p : p.kcal_per_day)),
                  Rat(Len(resp.supplements) + 1, 200))

EffectiveTarget(dog) ==
    IF dog.target_daily_kcal # None /\ RGt(dog.target_daily_kcal, F(0))
    THEN dog.target_daily_kcal
    ELSE RMul(calculate_rer(dog.weight_kg),
              get_activity_factor(dog.neutered, dog.age_years,
                                  dog.target_weight_kg, dog.weight_kg))

ReaderOk(op) == request.op = op /\ resp.status_code = 200

\* C11: the daily energy target that plan computation, the dog detail view and
\* the daily summary work with is the profile's override exactly when one is
\* stored and is greater than zero, and otherwise the maintenance energy
\* RER(weight) * activity factor; each response reports it rounded to 2 decimals.
C11_EffectiveDailyTarget ==
    /\ ReaderOk("compute") =>
          /\ locals.target_kcal = EffectiveTarget(dogs[request.dog_id])
          /\ resp.calorie_budget.target_daily_kcal = Round2(EffectiveTarget(dogs[request.dog_id]))
    /\ ReaderOk("get_dog") =>
          /\ locals.effective_daily_kcal = EffectiveTarget(dogs[request.dog_id])
          /\ resp.effective_daily_kcal = Round2(EffectiveTarget(dogs[request.dog_id]))
    /\ ReaderOk("get_daily_summary") =>
          /\ locals.target_kcal = EffectiveTarget(dogs[request.dog_id])
          /\ resp.target_kcal = Round2(EffectiveTarget(dogs[request.dog_id]))

\* C11 witness: the detail view of dog 2 reports the override stored by an update,
\* 150.125 kcal (shown as 150.12), and not the maintenance energy of the profile
C11_Witness_OverrideRead ==
    /\ ReaderOk("get_dog")
    /\ request.dog_id = 2
    /\ dogs[2].target_daily_kcal = Rat(1201, 8)
    /\ resp.effective_daily_kcal = Rat(15012, 100)
    /\ resp.effective_daily_kcal # resp.mer

(***************************************************************************)
(* Aggregation                                                             *)
(***************************************************************************)
AggregateDone == request.op = "aggregate_nutrients"

\* the sum over the entries of grams / 100 * per-100 g value, for one channel
ChannelSum(ings, c) ==
    RSum(MapSeq(ings, LAMBDA ing : RMul(RDiv(ing.grams, F(100)), ing.per100[c])))

\* C12: every channel of aggregate's result is the sum over the entries of
\* grams / 100 * the channel's per-100 g value; so multiplying every grams value
\* by k multiplies every channel by k, the result for A ++ B is the channel-wise
\* sum of the results for A and for B, reordering the entries changes nothing,
\* and the empty list gives the all-zero vector.
C12_AggregateLinear ==
    AggregateDone =>
        \A c \in Channels :
            /\ locals.a[c] = ChannelSum(request.a, c)
            /\ locals.joined[c] = ChannelSum(request.a \o request.b, c)
            /\ locals.scaled[c] = RMul(request.k, locals.a[c])
            /\ locals.joined[c] = RAdd(locals.a[c], locals.b[c])
            /\ locals.swapped[c] = locals.joined[c]
            /\ locals.reversed[c] = locals.joined[c]
            /\ request.a = <<>> => locals.a[c] = F(0)

\* C12 witness: 50 g of chicken with 12.5 g of rice, then liver, oil and turmeric,
\* tripled: 98.75 kcal for the first list and 296.25 kcal for its triple
C12_Witness_ScaledAndJoined ==
    /\ AggregateDone
    /\ Len(request.a) = 2
    /\ Len(request.b) = 3
    /\ request.k = F(3)
    /\ locals.a["kcal"] = Rat(395, 4)
    /\ locals.scaled["kcal"] = Rat(1185, 4)
    /\ locals.joined["kcal"] = RAdd(Rat(395, 4), locals.b["kcal"])
    /\ locals.joined # locals.a

(***************************************************************************)
(* Nutrient grading of a simulation                                        *)
(***************************************************************************)
SimulateOk == request.op = "simulate" /\ resp.status_code = 200

\* the reference row a graded nutrient was compared with
ReferenceRow(display_name) ==
    CHOOSE req \in {aafco_requirements[i] : i \in 1..Len(aafco_requirements)} :
        req.nutrient \in MappedNutrients /\ DisplayName(req.nutrient) = display_name

\* the status ladder on (amount, min, max): the first matching rule wins
LadderStatus(amount, min, max) ==
    IF RLt(amount, RMul(Rat(1, 2), min)) THEN "bad"
    ELSE IF RLt(amount, min) THEN "caution"
    ELSE IF max # None /\ RGt(amount, max) THEN "dangerous"
    ELSE IF max # None /\ RGt(amount, RMul(Rat(4, 5), max)) THEN "caution"
    ELSE IF RLe(min, amount) /\ RLe(amount, RMul(Rat(3, 2), min)) THEN "excellent"
    ELSE "good"

\* C13: simulate grades each nutrient by the ladder: amount < 0.5 * min is bad;
\* else amount < min is caution; else a defined max exceeded is dangerous; else
\* a defined max exceeded at 80% is caution; else min <= amount <= 1.5 * min is
\* excellent; otherwise good.  Each graded nutrient has that one status; an
\* amount above 1.5 * min with no maximum defined is good.
C13_StatusLadder ==
    SimulateOk =>
        \A i \in 1..Len(locals.grades) :
            LET g == locals.grades[i]
                row == ReferenceRow(g.nutrient)
            IN  /\ g.status = LadderStatus(g.per_1000, row.min_per_1000kcal, row.max_per_1000kcal)
                /\ resp.nutrient_status[i].status = g.status
                /\ (row.max_per_1000kcal = None
                    /\ RGt(g.per_1000, RMul(Rat(3, 2), row.min_per_1000kcal)))
                        => g.status = "good"

\* C13 witness: one response grades calcium dangerous (above its maximum), iron
\* bad (below half its minimum) and protein, which has no maximum and exceeds
\* 1.5 times its minimum, good
C13_Witness_AllRungs ==
    /\ SimulateOk
    /\ \E i, j, k \in 1..Len(locals.grades) :
          /\ locals.grades[i].nutrient = "Calcium" /\ locals.grades[i].status = "dangerous"
          /\ RGt(locals.grades[i].per_1000, ReferenceRow("Calcium").max_per_1000kcal)
          /\ locals.grades[j].nutrient = "Iron" /\ locals.grades[j].status = "bad"
          /\ locals.grades[k].nutrient = "Protein" /\ locals.grades[k].status = "good"
          /\ RGt(locals.grades[k].per_1000,
                 RMul(Rat(3, 2), ReferenceRow("Protein").min_per_1000kcal))

\* severity of a status under excellent < good < caution < bad < dangerous
Severity(status) ==
    CHOOSE n \in 1..5 : <<"excellent", "good", "caution", "bad", "dangerous">>[n] = status

\* C14: the overall status of a simulation is the worst status among the graded
\* nutrients under excellent < good < caution < bad < dangerous: it is the
\* status of one of them and none of them is more severe (with no nutrient
\* graded it is excellent).
C14_OverallIsWorst ==
    SimulateOk =>
        LET ns == resp.nutrient_status
        IN  /\ \A i \in 1..Len(ns) : Severity(ns[i].status) <= Severity(resp.overall_status)
            /\ ns # <<>> => \E i \in 1..Len(ns) : ns[i].status = resp.overall_status
            /\ ns = <<>> => resp.overall_status = "excellent"

\* C14 witness: the overall status is dangerous although bad nutrients are graded
\* too, the last graded one among them
C14_Witness_DangerousOverBad ==
    /\ SimulateOk
    /\ resp.overall_status = "dangerous"
    /\ \E i \in 1..Len(resp.nutrient_status) : resp.nutrient_status[i].status = "bad"
    /\ resp.nutrient_status[Len(resp.nutrient_status)].status = "bad"

(***************************************************************************)
(* Compliance findings                                                     *)
(***************************************************************************)
\* nutrientAmount / totalKcal * 1000, and 0 when totalKcal <= 0
Per1000(nutrient_amount, total_kcal) ==
    IF RLe(total_kcal, F(0)) THEN F(0)
    ELSE RMul(RDiv(nutrient_amount, total_kcal), F(1000))

\* C15: compliance evaluation gives one finding for each reference nutrient
\* row, whose amount per 1000 kcal is nutrientAmount / totalKcal * 1000, and 0
\* when totalKcal <= 0: for every evaluated nutrient vector, one of total kcal 0
\* included, there are as many findings as reference rows.
C15_OneFindingPerRow ==
    /\ ComputeOk =>
          /\ Len(resp.aafco_checks) = Len(aafco_requirements)
          /\ \A i \in 1..Len(aafco_requirements) :
                /\ resp.aafco_checks[i].nutrient = aafco_requirements[i].nutrient
                /\ resp.aafco_checks[i].amount_per_1000kcal
                      = Round2(Per1000(NutrientMapping(locals.totals,
                                                       aafco_requirements[i].nutrient),
                                       locals.totals["kcal"]))
    /\ SimulateOk =>
          /\ Len(resp.nutrient_status) = Len(aafco_requirements)
          /\ \A i \in 1..Len(aafco_requirements) :
                /\ resp.nutrient_status[i].nutrient = DisplayName(aafco_requirements[i].nutrient)
                /\ resp.nutrient_status[i].amount
                      = Round2(Per1000(NutrientMapping(locals.combined_totals,
                                                       aafco_requirements[i].nutrient),
                                       locals.combined_totals["kcal"]))

\* the number of entries of a list that satisfy a test
CountOf(s, Test(_)) == Cardinality({i \in 1..Len(s) : Test(s[i])})

\* C16: in a simulate result every nutrient graded caution, bad or dangerous has
\* exactly one warning and every nutrient graded excellent or good has none;
\* a bad nutrient has exactly one 'add more' recommendation, a dangerous one
\* exactly one 'reduce' recommendation, and no other recommendation is made for
\* a nutrient.
C16_WarningsAndRecommendations ==
    SimulateOk =>
        \A i \in 1..Len(resp.nutrient_status) :
            LET ns == resp.nutrient_status[i]
                warned == CountOf(resp.warnings,
                                  LAMBDA w : Len(w) = 2 /\ w[2] = ns.nutrient)
                add_more == CountOf(resp.recommendations,
                                    LAMBDA r : r[1] = "Add more foods rich in"
                                               /\ r[2] = NameLower(ns.nutrient))
                reduce == CountOf(resp.recommendations,
                                  LAMBDA r : r[1] = "REDUCE foods high in"
                                             /\ r[2] = NameLower(ns.nutrient))
            IN  /\ warned = IF ns.status \in {"caution", "bad", "dangerous"} THEN 1 ELSE 0
                /\ add_more = IF ns.status = "bad" THEN 1 ELSE 0
                /\ reduce = IF ns.status = "dangerous" THEN 1 ELSE 0

\* C16 witness: a result with a dangerous, a bad and a good nutrient: a warning
\* for each of the first two, one recommendation to reduce, one or more to add
C16_Witness_MixedStatuses ==
    /\ SimulateOk
    /\ \A st \in {"dangerous", "bad", "good"} :
          \E i \in 1..Len(resp.nutrient_status) : resp.nutrient_status[i].status = st
    /\ CountOf(resp.warnings, LAMBDA w : Len(w) = 2)
          = CountOf(resp.nutrient_status,
                    LAMBDA ns : ns.status \in {"dangerous", "bad", "caution"})
    /\ CountOf(resp.recommendations, LAMBDA r : r[1] = "REDUCE foods high in") >= 1
    /\ CountOf(resp.recommendations, LAMBDA r : r[1] = "Add more foods rich in") >= 1

(***************************************************************************)
(* check_aafco_compliance                                                  *)
(***************************************************************************)
\* C17: check_aafco_compliance answers deficient exactly when amount < min,
\* excess exactly when amount >= min, a maximum is given and amount > max, and
\* adequate in every other case (so whenever amount >= min and no maximum is
\* given); the warning is null exactly when the status is adequate, and the
\* result carries min and max as they were passed.
C17_ComplianceStatus ==
    request.op = "check_aafco_compliance" =>
        LET amount == request.amount_per_1000kcal
            min == request.min_per_1000kcal
            max == request.max_per_1000kcal
            deficient == RLt(amount, min)
            excess == RGe(amount, min) /\ max # None /\ RGt(amount, max)
        IN  /\ resp.status \in {"deficient", "excess", "adequate"}
            /\ resp.status = "deficient" <=> deficient
            /\ resp.status = "excess" <=> excess
            /\ resp.status = "adequate" <=> ~deficient /\ ~excess
            /\ (max = None /\ RGe(amount, min)) => resp.status = "adequate"
            /\ resp.warning = None <=> resp.status = "adequate"
            /\ resp.min_required = min
            /\ resp.max_allowed = max

\* C17 witness: 7000 against a minimum of 1250 and a maximum of 6250 is an excess
\* with a warning
C17_Witness_Excess ==
    /\ request.op = "check_aafco_compliance"
    /\ request.amount_per_1000kcal = F(7000)
    /\ request.min_per_1000kcal = F(1250)
    /\ request.max_per_1000kcal = F(6250)
    /\ resp.status = "excess"
    /\ resp.warning # None
    /\ resp.max_allowed = F(6250)

(***************************************************************************)
(* analyze_ca_p_ratio                                                      *)
(***************************************************************************)
AnalyzeDone == request.op = "analyze_ca_p_ratio"

\* C18: the Ca:P analyzer gives every (calcium, phosphorus) pair one status:
\* unknown, with ratio 0 and no recommendation, when phosphorus <= 0; otherwise,
\* for ratio = calcium / phosphorus, optimal in [1.1, 2.0], acceptable in
\* [1.0, 1.1), low below 1.0 and high above 2.0.  An eggshell mass and a
\* calcium gap are given only with status low.
C18_RatioStatus ==
    AnalyzeDone =>
        LET calcium == request.total_calcium_mg
            phosphorus == request.total_phosphorus_mg
        IN  /\ resp.status \in {"unknown", "optimal", "acceptable", "low", "high"}
            /\ resp.status = "unknown" <=> RLe(phosphorus, F(0))
            /\ RLe(phosphorus, F(0)) =>
                  /\ resp.ca_p_ratio = F(0)
                  /\ resp.eggshell_recommendation_g = None
            /\ RGt(phosphorus, F(0)) =>
                  LET ratio == RDiv(calcium, phosphorus)
                  IN  /\ resp.status = "optimal"
                            <=> RGe(ratio, Rat(11, 10)) /\ RLe(ratio, F(2))
                      /\ resp.status = "acceptable"
                            <=> RGe(ratio, F(1)) /\ RLt(ratio, Rat(11, 10))
                      /\ resp.status = "low" <=> RLt(ratio, F(1))
                      /\ resp.status = "high" <=> RGt(ratio, F(2))
                      /\ resp.ca_p_ratio = Round2(ratio)
            /\ resp.eggshell_recommendation_g # None => resp.status = "low"
            /\ resp.calcium_gap_mg # None => resp.status = "low"

\* C18 witness: 1100 mg of calcium to 1000 mg of phosphorus, a ratio of exactly
\* 1.1, is optimal and carries neither a gap nor an eggshell mass
C18_Witness_OptimalAtBoundary ==
    /\ AnalyzeDone
    /\ request.total_calcium_mg = F(1100)
    /\ request.total_phosphorus_mg = F(1000)
    /\ resp.status = "optimal"
    /\ resp.ca_p_ratio = Rat(11, 10)
    /\ resp.calcium_gap_mg = None
    /\ resp.eggshell_recommendation_g = None

\* a call of the analyzer with 0 <= calcium < phosphorus
CalciumShort ==
    /\ AnalyzeDone
    /\ RGe(request.total_calcium_mg, F(0))
    /\ RGt(request.total_phosphorus_mg, F(0))
    /\ RLt(request.total_calcium_mg, request.total_phosphorus_mg)

\* C19 as stated: for calcium >= 0 and phosphorus > 0 with calcium < phosphorus
\* the analyzer reports status low, calciumGap = phosphorus - calcium and an
\* eggshell mass that is > 0 and equals calciumGap / 380 g, so that
\* calcium + mass * 0.38 * 1000 equals phosphorus.
C19_EggshellRestoresRatio ==
    CalciumShort =>
        LET calcium == request.total_calcium_mg
            phosphorus == request.total_phosphorus_mg
        IN  /\ resp.status = "low"
            /\ resp.calcium_gap_mg = RSub(phosphorus, calcium)
            /\ RGt(resp.eggshell_recommendation_g, F(0))
            /\ resp.eggshell_recommendation_g = RDiv(RSub(phosphorus, calcium), F(380))
            /\ RAdd(calcium, RMul(RMul(resp.eggshell_recommendation_g, Rat(38, 100)), F(1000)))
                  = phosphorus

\* C19, amended: for calcium >= 0 and phosphorus > 0 with calcium < phosphorus
\* the analyzer reports status low, the gap phosphorus - calcium rounded to 2
\* decimals and the eggshell mass gap / 380 g rounded to 2 decimals.  The mass
\* is never negative; it is > 0 when gap / 380 exceeds 0.005 and 0 when
\* gap / 380 is below 0.005; calcium + mass * 0.38 * 1000 lies within 1.9 mg
\* of phosphorus.  A simulation lists the eggshell recommendation exactly when
\* the status is low and the rounded mass is not 0.
C19_EggshellRounded ==
    /\ CalciumShort =>
          LET calcium == request.total_calcium_mg
              phosphorus == request.total_phosphorus_mg
              gap == RSub(phosphorus, calcium)
              mass == resp.eggshell_recommendation_g
              restored == RAdd(calcium, RMul(RMul(mass, Rat(38, 100)), F(1000)))
          IN  /\ resp.status = "low"
              /\ resp.calcium_gap_mg = Round2(gap)
              /\ mass = Round2(RDiv(gap, F(380)))
              /\ RGe(mass, F(0))
              /\ RGt(RDiv(gap, F(380)), Rat(5, 1000)) => RGt(mass, F(0))
              /\ RLt(RDiv(gap, F(380)), Rat(5, 1000)) => mass = F(0)
              /\ RLe(RSub(restored, phosphorus), Rat(19, 10))
              /\ RLe(RSub(phosphorus, restored), Rat(19, 10))
    /\ SimulateOk =>
          LET listed == \E i \in 1..Len(resp.recommendations) :
                            resp.recommendations[i][1] = "Add eggshell powder"
          IN  listed <=> /\ resp.ca_p_analysis.status = "low"
                         /\ resp.ca_p_analysis.eggshell_recommendation_g # F(0)

\* C19 witness: 999 mg of calcium to 1000 mg of phosphorus is low with a gap of
\* 1 mg, and the recommended eggshell mass is 0.0 g
C19_Witness_ZeroMass ==
    /\ CalciumShort
    /\ request.total_calcium_mg = F(999)
    /\ request.total_phosphorus_mg = F(1000)
    /\ resp.status = "low"
    /\ resp.calcium_gap_mg = F(1)
    /\ resp.eggshell_recommendation_g = F(0)

KeepsStoredPercentages ==
    LET entries == RecipeEntries(recipe_ingredients, request.recipe_id)
        adjustments == request.ingredient_adjustments
    IN  \A i \in 1..Len(adjustments) : \A j \in 1..Len(entries) :
            entries[j].ingredient_id = adjustments[i].ingredient_id
                => entries[j].percentage = adjustments[i].new_percentage

\* C21: a simulation without kibble whose adjustments give every ingredient its
\* stored percentage (an empty list and adjustments of ingredients outside the
\* recipe included) returns after.fresh equal to before on every channel.
C21_SimulateIdempotent ==
    (SimulateOk /\ request.kibble = None /\ KeepsStoredPercentages) =>
        /\ \A c \in Channels : locals.fresh_totals[c] = locals.before_totals[c]
        /\ \A c \in Channels : resp.after.fresh[c] = resp.before[c]
        /\ resp.after.combined = resp.before

\* C21 witness: recipe 1 simulated with its four stored percentages as adjustments
C21_Witness_StoredPercentages ==
    /\ SimulateOk
    /\ request.kibble = None
    /\ request.recipe_id = 1
    /\ Len(request.ingredient_adjustments) = 4
    /\ KeepsStoredPercentages
    /\ RGt(resp.before["kcal"], F(0))
    /\ resp.after.fresh = resp.before

(***************************************************************************)
(* Safety checks of compute                                                *)
(***************************************************************************)
\* the name holds the word, whatever the case of its letters
Names(ingredient_id, word) == Contains(lower(ingredients[ingredient_id].name), word)

\* the percentage of a FOOD entry after the rescaling of compute
FoodPercentage(ri) ==
    IF InBand(RequestFoodSum) THEN ri.percentage
    ELSE RMul(RDiv(ri.percentage, RequestFoodSum), F(100))

RequestOilEntries ==
    SelectSeq(RequestEntries, LAMBDA ri : ingredients[ri.ingredient_id].ingredient_type = OIL)

TurmericOver(i) ==
    /\ Names(RequestFoodEntries[i].ingredient_id, <<"t","u","r","m","e","r","i","c">>)
    /\ RGt(locals.food_figures[i].grams_per_day, F(2))

LiverOver(i) ==
    /\ Names(RequestFoodEntries[i].ingredient_id, <<"l","i","v","e","r">>)
    /\ RGt(FoodPercentage(RequestFoodEntries[i]), F(5))

CoconutOver(i) ==
    /\ Names(RequestOilEntries[i].ingredient_id, <<"c","o","c","o","n","u","t">>)
    /\ RGt(RDiv(locals.oil_figures[i].ml_per_day, F(5)),
           RDiv(RMul(dogs[request.dog_id].weight_kg, Rat(2205, 1000)), F(30)))

Warned(kind, ingredient_id) ==
    CountOf(resp.warnings, LAMBDA w : w[1] = kind /\ w[2] = ingredient_id)

\* C22: the safety checks never fail a compute; the response carries one
\* turmeric warning for a FOOD entry named turmeric with more than 2 g per day,
\* one liver warning for a FOOD entry named liver with a FOOD percentage above 5,
\* one coconut warning for an OIL entry named coconut whose teaspoons per day
\* (ml per day / 5) exceed weight_kg * 2.205 / 30, names compared without
\* regard to case, and no such warning for any other entry.
C22_SafetyWarnings ==
    /\ (IsCompute /\ PassesChecks) => resp.status_code = 200
    /\ ComputeOk =>
        /\ \A i \in 1..Len(RequestFoodEntries) :
            /\ Warned("turmeric", RequestFoodEntries[i].ingredient_id)
                    = IF TurmericOver(i) THEN 1 ELSE 0
            /\ Warned("liver", RequestFoodEntries[i].ingredient_id)
                    = IF LiverOver(i) THEN 1 ELSE 0
        /\ \A i \in 1..Len(RequestOilEntries) :
            Warned("coconut", RequestOilEntries[i].ingredient_id)
                    = IF CoconutOver(i) THEN 1 ELSE 0
        /\ CountOf(resp.warnings, LAMBDA w : w[1] \in {"turmeric", "liver", "coconut"})
            = Cardinality({i \in 1..Len(RequestFoodEntries) : TurmericOver(i)})
              + Cardinality({i \in 1..Len(RequestFoodEntries) : LiverOver(i)})
              + Cardinality({i \in 1..Len(RequestOilEntries) : CoconutOver(i)})

\* C22 witness: recipe 9 computed for the 16 kg dog: "Beef LIVER" at exactly
\* 5% and one teaspoon of coconut oil under the limit of 1.176 raise nothing
C22_Witness_LimitsMet ==
    /\ ComputeOk
    /\ request.recipe_id = 9
    /\ request.dog_id = 1
    /\ FoodPercentage(RequestFoodEntries[3]) = F(5)
    /\ ~LiverOver(3)
    /\ ~CoconutOver(1)
    /\ CountOf(resp.warnings, LAMBDA w : w[1] \in {"turmeric", "liver", "coconut"}) = 0

(***************************************************************************)
(* Weight history                                                          *)
(***************************************************************************)
\* this step appends one entry for the dog with the weight and alters no other
AppendsEntry(dog_id, weight_kg) ==
    /\ Len(weight_logs') = Len(weight_logs) + 1
    /\ SubSeq(weight_logs', 1, Len(weight_logs)) = weight_logs
    /\ weight_logs'[Len(weight_logs')].dog_id = dog_id
    /\ weight_logs'[Len(weight_logs')].weight_kg = weight_kg

\* C23: a created dog gets one history entry with its initial weight; an
\* update that sets a weight other than the current one appends exactly one
\* entry with the new weight and any other update appends none; logging a
\* weight appends one entry and makes it the dog's current weight; whenever one
\* of these operations changes a dog's weight the entry appended carries the
\* new weight, and no operation of the three alters an entry already there.
C23_WeightHistory ==
    [][/\ (request'.op = "create_dog" /\ resp'.status_code = 201) =>
            /\ resp'.dog.id \notin DOMAIN dogs
            /\ dogs'[resp'.dog.id].weight_kg = request'.dog.weight_kg
            /\ AppendsEntry(resp'.dog.id, request'.dog.weight_kg)
       /\ (request'.op = "update_dog" /\ resp'.status_code = 200) =>
            IF "weight_kg" \in DOMAIN request'.update_data
               /\ request'.update_data["weight_kg"] # dogs[request'.dog_id].weight_kg
            THEN /\ AppendsEntry(request'.dog_id, request'.update_data["weight_kg"])
                 /\ dogs'[request'.dog_id].weight_kg = request'.update_data["weight_kg"]
            ELSE /\ weight_logs' = weight_logs
                 /\ dogs'[request'.dog_id].weight_kg = dogs[request'.dog_id].weight_kg
       /\ (request'.op = "create_weight_log" /\ resp'.status_code = 201) =>
            /\ AppendsEntry(request'.log.dog_id, request'.log.weight_kg)
            /\ dogs'[request'.log.dog_id].weight_kg = request'.log.weight_kg
       /\ (request'.op \in {"create_dog", "update_dog", "create_weight_log"}
           /\ resp'.status_code \notin {200, 201}) => weight_logs' = weight_logs
       /\ request'.op \in {"create_dog", "update_dog", "create_weight_log"} =>
            \A d \in DOMAIN dogs :
                dogs'[d].weight_kg # dogs[d].weight_kg => AppendsEntry(d, dogs'[d].weight_kg)
      ]_vars

\* C23 witness: a third entry written by an update that changed the weight
C23_Witness_WeightUpdated ==
    /\ request.op = "update_dog"
    /\ resp.status_code = 200
    /\ "weight_kg" \in DOMAIN request.update_data
    /\ Len(weight_logs) = 3
    /\ weight_logs[3].notes = "Weight updated"
    /\ weight_logs[3].dog_id = request.dog_id
    /\ weight_logs[3].weight_kg = dogs[request.dog_id].weight_kg
    /\ weight_logs[3].weight_kg # weight_logs[2].weight_kg

(***************************************************************************)
(* Energy and mass of the FOOD portions against the reported totals        *)
(***************************************************************************)
\* x and y differ by no more than tol
Near(x, y, tol) == RLe(RSub(x, y), tol) /\ RLe(RSub(y, x), tol)

\* the sum of one rounded field over the FOOD portions of the response
PortionSum(field) == RSum(MapSeq(resp.batch_ingredients, LAMBDA p : p[field]))

\* the rounding error a sum of the FOOD portions' figures and a rounded total allow
PortionTolerance == Rat(Len(resp.batch_ingredients) + 1, 200)

FoodBudgetReported ==
    Near(resp.calorie_budget.homemade_food_kcal,
         RSub(RSub(resp.homemade_kcal, resp.calorie_budget.oils_kcal),
              resp.calorie_budget.supplements_kcal),
         Rat(2, 100))

FoodEnergyMeetsBudget ==
    /\ Near(resp.nutrient_totals["kcal"], resp.calorie_budget.homemade_food_kcal, Rat(1, 100))
    /\ Near(PortionSum("kcal_per_day"), resp.calorie_budget.homemade_food_kcal, PortionTolerance)

\* C24 as claimed: in every compute response nutrient_totals.kcal, the sum of
\* kcal_per_day over the FOOD portions, calorie_budget.homemade_food_kcal and
\* homemade budget - oil kcal - supplement kcal agree up to rounding.
C24_FoodEnergyEqualsBudget ==
    ComputeOk => FoodBudgetReported /\ FoodEnergyMeetsBudget

\* C24: homemade_food_kcal is always homemade budget - oil kcal - supplement
\* kcal; the energy of the FOOD portions equals it (up to rounding, whatever
\* the FOOD percentages sum to) when that budget and the weighted average kcal
\* per 100 g are both > 0, and is 0 otherwise.
C24_FoodEnergyWithinBudget ==
    ComputeOk =>
        /\ FoodBudgetReported
        /\ resp.calorie_budget.homemade_food_kcal = Round2(locals.actual_batch_kcal)
        /\ IF RGt(locals.actual_batch_kcal, F(0)) /\ RGt(locals.weighted_avg_kcal_per_100g, F(0))
           THEN /\ locals.totals["kcal"] = locals.actual_batch_kcal
                /\ FoodEnergyMeetsBudget
           ELSE /\ resp.nutrient_totals["kcal"] = F(0)
                /\ \A i \in 1..Len(resp.batch_ingredients) :
                        resp.batch_ingredients[i].kcal_per_day = F(0)

\* C24 witness: recipe 4, whose FOOD percentages sum to 60, planned within a
\* positive food budget
C24_Witness_RescaledRecipe ==
    /\ ComputeOk
    /\ request.recipe_id = 4
    /\ RequestFoodSum = F(60)
    /\ RGt(resp.calorie_budget.homemade_food_kcal, F(0))
    /\ resp.nutrient_totals["kcal"] = resp.calorie_budget.homemade_food_kcal
    /\ Len(resp.batch_ingredients) = 2

\* the FOOD portions' rounded figures sum to `share` of the reported batch totals
PortionsSumTo(share) ==
    LET tol == Rat(Len(resp.batch_ingredients) + 2, 200)
    IN  /\ Near(PortionSum("grams_per_day"),
                RMul(share, RDiv(resp.total_batch_grams, F(request.num_days))), tol)
        /\ Near(PortionSum("total_grams_batch"), RMul(share, resp.total_batch_grams), tol)
        /\ Near(PortionSum("grams_per_meal"), RMul(share, resp.grams_per_container), tol)

PlansBalanced ==
    \A k \in 1..Len(plans) :
        /\ RGe(plans[k].homemade_kcal, F(0))
        /\ Near(plans[k].homemade_kcal,
                RMax(F(0), RSub(RSub(plans[k].target_kcal, plans[k].kibble_kcal),
                                plans[k].treats_kcal)),
                Rat(1, 100))

OtherTablesUnchanged ==
    UNCHANGED <<dogs, ingredients, recipes, recipe_ingredients, weight_logs, feeding_logs>>

C27_NoDanglingReference ==
    /\ \A k \in 1..Len(plans) :
            /\ plans[k].dog_id \in DOMAIN dogs
            /\ plans[k].recipe_id \in DOMAIN recipes
    /\ \A k \in 1..Len(recipe_ingredients) :
            /\ recipe_ingredients[k].recipe_id \in DOMAIN recipes
            /\ recipe_ingredients[k].ingredient_id \in DOMAIN ingredients

\* C27 witness: the delete of a dog is refused while a plan refers to it,
\* after a recipe and an ingredient were deleted
C27_Witness_DeleteRefused ==
    /\ request.op = "delete_dog"
    /\ resp.status_code = 500
    /\ \E k \in 1..Len(plans) : plans[k].dog_id = request.dog_id
    /\ 7 \notin DOMAIN recipes
    /\ 7 \notin DOMAIN ingredients

\* the weight history of a dog, oldest entry first
HistoryOf(dog_id) == SelectSeq(weight_logs, LAMBDA l : l.dog_id = dog_id)

\* C28: after any sequence of dog creations, profile updates, weight-log
\* creations and weight-log deletions every dog has at least one history entry
\* and its current weight is the weight of the last entry appended to its
\* history that is still there.
C28_CurrentWeightIsLatestEntry ==
    \A d \in DOMAIN dogs :
        /\ HistoryOf(d) # <<>>
        /\ dogs[d].weight_kg = HistoryOf(d)[Len(HistoryOf(d))].weight_kg

(***************************************************************************)
(* Recipes: owners and entries                                             *)
(***************************************************************************)
RecipeOps ==
    {"get_recipe", "update_recipe", "add_ingredient_to_recipe",
     "remove_ingredient_from_recipe", "delete_recipe"}

\* C29: a recipe owned by a user is closed to every other caller, with or
\* without a token: get, update, add-ingredient, remove-ingredient and delete
\* answer 404 and change nothing, and list does not include it.
C29_OwnedRecipesClosed ==
    [][/\ (/\ request'.op \in RecipeOps
           /\ request'.recipe_id \in DOMAIN recipes
           /\ recipes[request'.recipe_id].user_id # None
           /\ recipes[request'.recipe_id].user_id # request'.user) =>
                /\ resp'.status_code = 404
                /\ store' = store
       /\ request'.op = "list_recipes" =>
            \A i \in resp'.recipes : recipes[i].user_id \in {None, request'.user}
      ]_vars

\* the entries of a recipe, and those of one ingredient in it
EntryCount(rows, recipe_id) == Len(RecipeEntries(rows, recipe_id))

EntriesOf(rows, recipe_id, ingredient_id) ==
    SelectSeq(rows, LAMBDA ri : ri.recipe_id = recipe_id /\ ri.ingredient_id = ingredient_id)

OneEntryPerIngredient ==
    \A r \in DOMAIN recipes, i \in DOMAIN ingredients :
        Len(EntriesOf(recipe_ingredients, r, i)) <= 1

\* C30: a recipe never holds two entries of one ingredient; an accepted add of
\* an ingredient already in the recipe replaces its percentage and keeps the
\* count, an add of a new one raises the count by one, a remove of a present
\* ingredient lowers it by one and a remove of an absent one changes nothing;
\* an add naming an unknown recipe or ingredient returns 404 and changes nothing.
C30_OneEntryPerIngredient ==
    /\ []OneEntryPerIngredient
    /\ [][
       /\ (request'.op = "add_ingredient_to_recipe" /\ resp'.status_code = 200) =>
            LET r == request'.recipe_id
                i == request'.data.ingredient_id
            IN  /\ EntryCount(recipe_ingredients', r) =
                        EntryCount(recipe_ingredients, r)
                        + (IF EntriesOf(recipe_ingredients, r, i) = <<>> THEN 1 ELSE 0)
                /\ Len(EntriesOf(recipe_ingredients', r, i)) = 1
                /\ EntriesOf(recipe_ingredients', r, i)[1].percentage = request'.data.percentage
                /\ Len(resp'.recipe.ingredients) = EntryCount(recipe_ingredients', r)
       /\ (request'.op = "remove_ingredient_from_recipe" /\ resp'.status_code = 200) =>
            LET r == request'.recipe_id
                i == request'.ingredient_id
            IN  IF EntriesOf(recipe_ingredients, r, i) # <<>>
                THEN /\ EntryCount(recipe_ingredients', r) = EntryCount(recipe_ingredients, r) - 1
                     /\ EntriesOf(recipe_ingredients', r, i) = <<>>
                ELSE store' = store
       /\ (/\ request'.op = "add_ingredient_to_recipe"
           /\ \/ request'.recipe_id \notin DOMAIN recipes
              \/ request'.data.ingredient_id \notin DOMAIN ingredients) =>
                /\ resp'.status_code = 404
                /\ store' = store
      ]_vars

\* C30 witness: an add of Broth to recipe 7, which held it at 100 %, left
\* the recipe with its one entry, now at the 20 % of the request
C30_Witness_Replaced ==
    /\ request.op = "add_ingredient_to_recipe"
    /\ resp.status_code = 200
    /\ request.recipe_id = 7
    /\ request.data = [ingredient_id |-> 7, percentage |-> F(20)]
    /\ EntryCount(recipe_ingredients, 7) = 1
    /\ EntriesOf(recipe_ingredients, 7, 7) = << RecipeIngredient(7, 7, F(20)) >>
    /\ Len(resp.recipe.ingredients) = 1

====
